---- MODULE Spec2Model ----
(***************************************************************************)
(* Model of the "reconstructed" inventory plugin                           *)
(* (inventory_plugins/reconstructed.py): the VariableStorage class, the    *)
(* RcInstruction hierarchy and the per-host execution driver of            *)
(* InventoryModule.                                                        *)
(*                                                                         *)
(* Python values are modelled as records of one shape, [t, s, l], so that  *)
(* any two values can be compared: t is the Python type, s the text of a   *)
(* string, l the items of a list.  A string that holds a Jinja template    *)
(* "{{ n }}" has t = "tpl" and s = "n".                                    *)
(***************************************************************************)
EXTENDS Integers, Sequences, FiniteSets, TLC

(***************************************************************************)
(* Bounds of the model.                                                    *)
(***************************************************************************)
MaxStack == 2
NHosts == 2
MaxLoop == 2
MaxSec == 2

(***************************************************************************)
(* Python values.                                                          *)
(***************************************************************************)
None == [t |-> "none", s |-> "", l |-> <<>>]
Str(x) == [t |-> "str", s |-> x, l |-> <<>>]
Tpl(x) == [t |-> "tpl", s |-> x, l |-> <<>>]
Lst(x) == [t |-> "list", s |-> "", l |-> x]
Bool(b) == [t |-> "bool", s |-> IF b THEN "True" ELSE "False", l |-> <<>>]
\* an ordered dictionary of a record: l is the sequence of <<key, value>> pairs
Dict(x) == [t |-> "dict", s |-> "", l |-> x]

(***************************************************************************)
(* Python dictionaries: functions whose domain is the set of keys.         *)
(***************************************************************************)
EmptyDict == [k \in {} |-> None]
DictSet(d, k, v) == [x \in (DOMAIN d) \cup {k} |-> IF x = k THEN v ELSE d[x]]
DictDel(d, k) == [x \in (DOMAIN d) \ {k} |-> d[x]]
DictUpdate(a, b) ==
    [x \in (DOMAIN a) \cup (DOMAIN b) |-> IF x \in DOMAIN b THEN b[x] ELSE a[x]]
SeqToSet(q) == {q[i] : i \in 1..Len(q)}

VARIABLES
    variables,      \* the VariableStorage in use
    vsOp,           \* history: the last operations applied to the storage
    vsBefore,       \* history: the storage before the last push
    pc,             \* position of InventoryModule.parse
    source,         \* the "instructions" option: the records of the program
    strictness,     \* the "strictness" option
    instructions,   \* the parsed instruction objects, by position in the tree
    inventory,      \* the Inventory: groups, parent/child links, host facts
    hostIdx,        \* index of the host being processed
    available_variables, \* templar.available_variables: the bound storage
    discarded,      \* the storages of the hosts already processed
    stack,          \* the call stack of the interpreter
    sig,            \* the value returned or the error raised by the last call
    log             \* history: the events of the run

vsVars == <<variables, vsOp, vsBefore>>
runVars == <<pc, source, strictness, instructions, inventory, hostIdx,
             available_variables, discarded, stack, sig, log>>
vars == <<variables, vsOp, vsBefore, pc, source, strictness, instructions,
          inventory, hostIdx, available_variables, discarded, stack, sig, log>>

(***************************************************************************)
(* class VariableStorage                                                   *)
(***************************************************************************)
NewVariableStorage(host_vars) ==
    [host_vars |-> host_vars,
     script_vars |-> EmptyDict,
     script_stack |-> <<>>,
     cache |-> host_vars]

\* mutant: every name is recorded as having no script local
ScriptStackPushNoFlag(vs, names) ==
    [vs EXCEPT !.script_stack =
        Append(@, [v \in names |-> [existed |-> FALSE, value |-> None]])]

ScriptStackPush(vs, names) ==
    LET data == [v \in names |->
                    IF v \in DOMAIN vs.script_vars
                    THEN [existed |-> TRUE, value |-> vs.script_vars[v]]
                    ELSE [existed |-> FALSE, value |-> None]]
    IN [vs EXCEPT !.script_stack = Append(@, data)]

\* mutant: names that had no script local are not deleted
RestoredScriptVarsNoDelete(script_vars, restore) ==
    LET back == {k \in DOMAIN restore : restore[k].existed}
    IN [k \in (DOMAIN script_vars) \cup back |->
           IF k \in back THEN restore[k].value ELSE script_vars[k]]

\* the script-local mapping after the loop of _script_stack_pop
RestoredScriptVars(script_vars, restore) ==
    LET keep == {k \in DOMAIN script_vars :
                    k \notin DOMAIN restore \/ restore[k].existed}
        back == {k \in DOMAIN restore : restore[k].existed}
    IN [k \in keep \cup back |->
           IF k \in back THEN restore[k].value ELSE script_vars[k]]

\* the number of entries counted in "unchanged" by _script_stack_pop
UnchangedCount(script_vars, restore) ==
    Cardinality({k \in DOMAIN restore :
                    ~restore[k].existed /\ k \notin DOMAIN script_vars})

\* mutant: the pop also takes the saved names out of the host facts
ScriptStackPopFacts(vs) ==
    LET n == Len(vs.script_stack)
        restore == vs.script_stack[n]
        sv == RestoredScriptVars(vs.script_vars, restore)
        hv == [k \in (DOMAIN vs.host_vars) \ (DOMAIN restore) |-> vs.host_vars[k]]
    IN [host_vars |-> hv,
        script_vars |-> sv,
        script_stack |-> SubSeq(vs.script_stack, 1, n - 1),
        cache |-> DictUpdate(hv, sv)]

\* mutant: the names are restored but the record stays on the stack
ScriptStackPopKeep(vs) ==
    LET n == Len(vs.script_stack)
        restore == vs.script_stack[n]
        sv == RestoredScriptVars(vs.script_vars, restore)
    IN [host_vars |-> vs.host_vars,
        script_vars |-> sv,
        script_stack |-> vs.script_stack,
        cache |-> DictUpdate(vs.host_vars, sv)]

ScriptStackPop(vs) ==
    LET n == Len(vs.script_stack)
        restore == vs.script_stack[n]
        sv == RestoredScriptVars(vs.script_vars, restore)
        unchanged == UnchangedCount(vs.script_vars, restore)
    IN [host_vars |-> vs.host_vars,
        script_vars |-> sv,
        script_stack |-> SubSeq(vs.script_stack, 1, n - 1),
        cache |-> IF unchanged # Cardinality(DOMAIN restore)
                  THEN DictUpdate(vs.host_vars, sv)
                  ELSE vs.cache]

\* mutant: the cache is updated even under a script local of the same name
SetHostVarShadowing(vs, name, value) ==
    [vs EXCEPT !.host_vars = DictSet(@, name, value),
               !.cache = DictSet(@, name, value)]

\* mutant: a fact is not set under a script local of the same name
SetHostVarHidden(vs, name, value) ==
    IF name \in DOMAIN vs.script_vars THEN vs
    ELSE [vs EXCEPT !.host_vars = DictSet(@, name, value),
                    !.cache = DictSet(@, name, value)]

\* _set_host_var, lines 191-193
SetHostVar(vs, name, value) ==
    [vs EXCEPT !.host_vars = DictSet(@, name, value),
               !.cache = IF name \notin DOMAIN vs.script_vars
                         THEN DictSet(@, name, value) ELSE @]

GetItem(vs, k) == vs.cache[k]

SetItem(vs, k, v) ==
    [vs EXCEPT !.script_vars = DictSet(@, k, v),
               !.cache = DictSet(@, k, v)]

\* mutant: the cache entry is dropped whether or not the key is a host fact
DelItemDrop(vs, k) ==
    IF k \notin DOMAIN vs.script_vars THEN vs
    ELSE [vs EXCEPT !.script_vars = DictDel(@, k),
                    !.cache = DictDel(@, k)]

\* del store[k]; a key with no script-local raises KeyError before any change
DelItem(vs, k) ==
    IF k \notin DOMAIN vs.script_vars THEN vs
    ELSE [vs EXCEPT !.script_vars = DictDel(@, k),
                    !.cache = IF k \in DOMAIN vs.host_vars
                              THEN DictSet(@, k, vs.host_vars[k])
                              ELSE DictDel(@, k)]

(***************************************************************************)
(* Parsing: parse_instruction and RcInstruction.parse.  A parse operator   *)
(* returns [ok |-> TRUE, ...] or [ok |-> FALSE, error] for an exception.   *)
(***************************************************************************)
INSTR_COMMON_FIELDS == {"action", "loop", "loop_var", "run_once", "vars", "when"}

INSTR_OWN_FIELDS(action) ==
    CASE action = "add_child" -> {"group", "child"}
      [] action = "add_host" -> {"group"}
      [] action = "block" -> {"block", "rescue", "always", "locals"}
      [] action = "create_group" -> {"group", "parent", "add_host"}
      [] action = "fail" -> {"msg"}
      [] action = "set_fact" -> {"name", "value"}
      [] action = "set_var" -> {"name", "value"}
      [] action = "stop" -> {}

\* mutant: one table of fields for all the actions
InstrFieldsShared(action) ==
    UNION {INSTR_OWN_FIELDS(a) :
              a \in {"add_child", "add_host", "block", "create_group", "fail",
                     "set_fact", "set_var", "stop"}}
        \cup INSTR_COMMON_FIELDS

INSTR_FIELDS(action) == INSTR_OWN_FIELDS(action) \cup INSTR_COMMON_FIELDS

INSTRUCTIONS ==
    {"add_child", "add_host", "block", "create_group", "fail", "set_fact",
     "set_var", "stop"}

DEFAULT_LOOP_VAR == "item"

IsString(v) == v.t \in {"str", "tpl"}
is_possibly_template(v) == v.t = "tpl"

\* names that ansible.utils.vars.isidentifier rejects, among those used here
NotIdentifiers == {"not an id", ""}
isidentifier(n) == n \notin NotIdentifiers

\* str.strip() on the group names used here
strip(n) == CASE n = " g1 " -> "g1" [] n = " bad name " -> "bad name" [] OTHER -> n
\* names matched by C.INVALID_VARIABLE_NAMES
HasInvalidChars(n) == n \in {"bad name", " bad name ", " g1 "}

\* the two ways parsing fails: an AnsibleParserError raised by the parsers, or
\* the KeyError of record["action"] at line 1034
ParseError == [ok |-> FALSE, error |-> "AnsibleParserError"]
ParseCrash == [ok |-> FALSE, error |-> "KeyError"]

parse_condition(record) ==
    IF "when" \notin DOMAIN record THEN [ok |-> TRUE, condition |-> None]
    ELSE IF ~IsString(record.when) THEN ParseError
    ELSE [ok |-> TRUE, condition |-> record.when]

parse_loop(record) ==
    IF "loop" \notin DOMAIN record
    THEN IF "loop_var" \in DOMAIN record THEN ParseError
         ELSE [ok |-> TRUE, loop |-> None, loop_var |-> None]
    ELSE LET loop == record.loop
             loop_var == IF "loop_var" \in DOMAIN record
                         THEN record.loop_var ELSE Str(DEFAULT_LOOP_VAR)
         IN IF ~(IsString(loop) \/ loop.t = "list") THEN ParseError
            ELSE IF ~IsString(loop_var) THEN ParseError
            ELSE IF ~isidentifier(loop_var.s) THEN ParseError
            ELSE [ok |-> TRUE, loop |-> loop, loop_var |-> loop_var]

\* "vars" is an ordered dictionary: a sequence of <<key, value>> pairs, or a
\* value of another type
parse_vars(record) ==
    IF "vars" \notin DOMAIN record THEN [ok |-> TRUE, vars |-> <<>>]
    ELSE IF record.vars.t # "dict" THEN ParseError
    ELSE IF \E i \in 1..Len(record.vars.l) : ~isidentifier(record.vars.l[i][1])
    THEN ParseError
    ELSE [ok |-> TRUE, vars |-> record.vars.l]

\* mutant: run_once: false arms the instruction as run_once: true does
parse_run_onceAnyBool(record) ==
    IF "run_once" \notin DOMAIN record THEN [ok |-> TRUE, executed_once |-> None]
    ELSE IF record.run_once.t # "bool" THEN ParseError
    ELSE [ok |-> TRUE, executed_once |-> Bool(FALSE)]

parse_run_once(record) ==
    IF "run_once" \notin DOMAIN record THEN [ok |-> TRUE, executed_once |-> None]
    ELSE IF record.run_once.t # "bool" THEN ParseError
    ELSE IF record.run_once = Bool(TRUE)
    THEN [ok |-> TRUE, executed_once |-> Bool(FALSE)]
    ELSE [ok |-> TRUE, executed_once |-> None]

parse_group_name(record, name) ==
    IF name \notin DOMAIN record THEN ParseError
    ELSE LET group == record[name]
             may_be_template == is_possibly_template(group)
         IN IF ~IsString(group) THEN ParseError
            ELSE IF may_be_template
            THEN [ok |-> TRUE, mbt |-> TRUE, name |-> group]
            ELSE IF HasInvalidChars(strip(group.s)) THEN ParseError
            ELSE [ok |-> TRUE, mbt |-> FALSE, name |-> Str(strip(group.s))]

\* parse_action of every class but RciBlock
parse_action(record) ==
    LET action == record.action IN
    CASE action = "create_group" ->
            LET g == parse_group_name(record, "group")
                p == IF "parent" \in DOMAIN record
                     THEN parse_group_name(record, "parent")
                     ELSE [ok |-> TRUE, mbt |-> FALSE, name |-> None]
            IN IF ~g.ok \/ ~p.ok THEN ParseError
               ELSE [ok |-> TRUE,
                     own |-> [add_host |-> IF "add_host" \in DOMAIN record
                                           THEN record.add_host ELSE Bool(FALSE),
                              group_mbt |-> g.mbt, group_name |-> g.name,
                              parent_mbt |-> p.mbt, parent_name |-> p.name]]
      [] action = "add_host" ->
            LET g == parse_group_name(record, "group")
            IN IF ~g.ok THEN ParseError
               ELSE [ok |-> TRUE,
                     own |-> [may_be_template |-> g.mbt, group |-> g.name]]
      [] action = "add_child" ->
            LET g == parse_group_name(record, "group")
                c == parse_group_name(record, "child")
            IN IF ~g.ok \/ ~c.ok THEN ParseError
               ELSE [ok |-> TRUE,
                     own |-> [group_mbt |-> g.mbt, group_name |-> g.name,
                              child_mbt |-> c.mbt, child_name |-> c.name]]
      [] action \in {"set_fact", "set_var"} ->
            IF "name" \notin DOMAIN record THEN ParseError
            ELSE IF ~IsString(record.name) THEN ParseError
            ELSE IF "value" \notin DOMAIN record THEN ParseError
            ELSE LET nmbt == is_possibly_template(record.name)
                 IN IF ~(nmbt \/ isidentifier(record.name.s)) THEN ParseError
                    ELSE [ok |-> TRUE,
                          own |-> [is_fact |-> action = "set_fact",
                                   name_may_be_template |-> nmbt,
                                   var_name |-> record.name,
                                   var_value |-> record.value]]
      [] action = "stop" -> [ok |-> TRUE, own |-> [stop |-> TRUE]]
      [] action = "fail" ->
            [ok |-> TRUE,
             own |-> [message |-> IF "msg" \in DOMAIN record
                                  THEN record.msg ELSE None]]

\* RcInstruction.parse up to the call of parse_action: the common fields
ParseCommon(record) ==
    LET extra_fields == (DOMAIN record) \ INSTR_FIELDS(record.action)
        c == parse_condition(record)
        l == parse_loop(record)
        v == parse_vars(record)
        r == parse_run_once(record)
    IN IF extra_fields # {} THEN ParseError
       ELSE IF ~c.ok \/ ~l.ok \/ ~v.ok \/ ~r.ok THEN ParseError
       ELSE [ok |-> TRUE,
             common |-> [action |-> record.action,
                         condition |-> c.condition,
                         loop |-> l.loop,
                         loop_var |-> l.loop_var,
                         vars |-> v.vars,
                         executed_once |-> r.executed_once,
                         save |-> [i \in 1..Len(v.vars) |-> v.vars[i][1]]
                                  \o (IF l.loop # None
                                      THEN <<l.loop_var.s>> ELSE <<>>)]]

\* the sections of a block, in the order parse_action reads them
SectionNames == <<"block", "rescue", "always">>
SectionNo(sec) == CASE sec = "block" -> 1 [] sec = "rescue" -> 2 [] sec = "always" -> 3
ChildPath(path, sec, j) == path \o <<SectionNo(sec), j>>

\* the list of a section in the record of a block; absent sections are empty
SectionSource(record, sec) == IF sec \in DOMAIN record THEN record[sec] ELSE <<>>

\* the positions of the records nested in the record of a block
SectionSlots(record) ==
    {<<sec, j>> \in {"block", "rescue", "always"} \X (1..MaxSec + 1) :
        j <= Len(SectionSource(record, sec))}

\* parse_instruction: the table of the instruction objects built for a record,
\* by path in the tree (the record's own path and those of its descendants)
RECURSIVE parse_instruction(_, _)
RECURSIVE ParseSlots(_, _, _)

\* the instructions parsed so far, and what parsing the records that follow gives
ParseRest(first, rest) ==
    IF ~rest.ok THEN rest ELSE [ok |-> TRUE, tab |-> first.tab @@ rest.tab]

\* RciBlock.parse_block on the nested records at the positions S
ParseSlots(record, path, S) ==
    IF S = {} THEN [ok |-> TRUE, tab |-> EmptyDict]
    ELSE LET x == CHOOSE y \in S : \A z \in S :
                      \/ SectionNo(y[1]) < SectionNo(z[1])
                      \/ SectionNo(y[1]) = SectionNo(z[1]) /\ y[2] <= z[2]
             first == parse_instruction(SectionSource(record, x[1])[x[2]],
                                        ChildPath(path, x[1], x[2]))
         IN IF ~first.ok THEN first
            ELSE ParseRest(first, ParseSlots(record, path, S \ {x}))

parse_instruction(record, path) ==
    IF "action" \notin DOMAIN record THEN ParseCrash
    ELSE IF record.action \notin INSTRUCTIONS THEN ParseError
    ELSE LET c == ParseCommon(record) IN
         IF ~c.ok THEN ParseError
         ELSE IF record.action # "block"
         THEN LET a == parse_action(record)
              IN IF ~a.ok THEN ParseError
                 ELSE [ok |-> TRUE, tab |-> (path :> (c.common @@ a.own))]
         ELSE IF "block" \notin DOMAIN record THEN ParseError
         ELSE LET children(sec) ==
                      [j \in 1..Len(SectionSource(record, sec)) |->
                          ChildPath(path, sec, j)]
                  own == [block |-> children("block"),
                          rescue |-> children("rescue"),
                          always |-> children("always")]
                  nested == ParseSlots(record, path, SectionSlots(record))
              IN IF ~nested.ok THEN nested
                 ELSE [ok |-> TRUE,
                       tab |-> (path :> (c.common @@ own)) @@ nested.tab]

\* InventoryModule.parse, "Read the program"
RECURSIVE ParseProgram(_, _)
ParseProgram(src, i) ==
    IF i > Len(src) THEN [ok |-> TRUE, tab |-> EmptyDict]
    ELSE LET first == parse_instruction(src[i], <<i>>)
         IN IF ~first.ok THEN first
            ELSE ParseRest(first, ParseProgram(src, i + 1))

(***************************************************************************)
(* Results of calls: a returned boolean or a raised error.                 *)
(***************************************************************************)
NoSig == [k |-> "none", v |-> FALSE, msg |-> ""]
Ret(b) == [k |-> "ret", v |-> b, msg |-> ""]
\* an error of the AnsibleError family (AnsibleRuntimeError, undefined variable)
AnsibleError(m) == [k |-> "AnsibleError", v |-> FALSE, msg |-> m]
\* any other exception (TypeError, AttributeError, KeyError, AssertionError)
OtherError(m) == [k |-> "Exception", v |-> FALSE, msg |-> m]
IsError(o) == o.k \in {"AnsibleError", "Exception"}

(***************************************************************************)
(* The Template Evaluator (external): templates are expressions over the   *)
(* bound variables.  Bound(av, vs) is the storage the templar reads when   *)
(* available_variables is av and the current host's storage is vs.         *)
(***************************************************************************)
Unbound == [unbound |-> TRUE]
Bound(av, vs) ==
    IF av = 0 THEN Unbound
    ELSE IF av = hostIdx THEN vs
    ELSE discarded[av]

EvalExpr(ctx, e) ==
    IF e = "True" THEN [err |-> NoSig, v |-> Bool(TRUE)]
    ELSE IF e = "False" THEN [err |-> NoSig, v |-> Bool(FALSE)]
    ELSE IF "unbound" \in DOMAIN ctx
    THEN [err |-> OtherError("no variables bound"), v |-> None]
    ELSE IF e = "x == '1'"
    THEN IF "x" \in DOMAIN ctx.cache
         THEN [err |-> NoSig, v |-> Bool(GetItem(ctx, "x") = Str("1"))]
         ELSE [err |-> AnsibleError("'x' is undefined"), v |-> None]
    ELSE IF e = "flag == 'no'"
    THEN IF "flag" \in DOMAIN ctx.cache
         THEN [err |-> NoSig, v |-> Bool(GetItem(ctx, "flag") = Str("no"))]
         ELSE [err |-> AnsibleError("'flag' is undefined"), v |-> None]
    ELSE IF e = "item == 'b'"
    THEN IF "item" \in DOMAIN ctx.cache
         THEN [err |-> NoSig, v |-> Bool(GetItem(ctx, "item") = Str("b"))]
         ELSE [err |-> AnsibleError("'item' is undefined"), v |-> None]
    ELSE IF e \in DOMAIN ctx.cache
    THEN [err |-> NoSig, v |-> GetItem(ctx, e)]
    ELSE [err |-> AnsibleError("undefined variable"), v |-> None]

\* templar.template(x): a value that is not a template is returned as it is
template(ctx, x) ==
    IF x.t = "tpl" THEN EvalExpr(ctx, x.s) ELSE [err |-> NoSig, v |-> x]

\* ansible.module_utils.parsing.convert_bool.boolean (strict)
BOOLEANS_TRUE == {"y", "yes", "on", "1", "true", "t"}
BOOLEANS_FALSE == {"n", "no", "off", "0", "false", "f"}
boolean(v) ==
    IF v.t = "bool" THEN [err |-> NoSig, v |-> (v = Bool(TRUE))]
    ELSE IF v.t = "str" /\ v.s \in BOOLEANS_TRUE THEN [err |-> NoSig, v |-> TRUE]
    ELSE IF v.t = "str" /\ v.s \in BOOLEANS_FALSE THEN [err |-> NoSig, v |-> FALSE]
    ELSE [err |-> OtherError("not a valid boolean"), v |-> FALSE]

\* Python truthiness of a value
Truthy(v) ==
    CASE v.t = "bool" -> v = Bool(TRUE)
      [] v.t \in {"str", "tpl"} -> v.s # ""
      [] v.t \in {"list", "dict"} -> v.l # <<>>
      [] OTHER -> FALSE

(***************************************************************************)
(* The Inventory (external).                                               *)
(***************************************************************************)
AllHosts == <<"h1", "h2", "h3", "h4">>

add_group(inv, name) == [inv EXCEPT !.groups = @ \cup {name}]

\* mutant: the child replaces the memberships recorded so far
add_child_replacing(inv, group, child) ==
    IF group \notin inv.groups
    THEN [err |-> AnsibleError("not a known group"), inv |-> inv]
    ELSE IF child \notin inv.groups \cup DOMAIN inv.hostvars
    THEN [err |-> AnsibleError("not a known host nor group"), inv |-> inv]
    ELSE [err |-> NoSig, inv |-> [inv EXCEPT !.children = {<<group, child>>}]]

\* InventoryData.add_child: [err, inv]
add_child(inv, group, child) ==
    IF group \notin inv.groups
    THEN [err |-> AnsibleError("not a known group"), inv |-> inv]
    ELSE IF child \notin inv.groups \cup DOMAIN inv.hostvars
    THEN [err |-> AnsibleError("not a known host nor group"), inv |-> inv]
    ELSE [err |-> NoSig, inv |-> [inv EXCEPT !.children = @ \cup {<<group, child>>}]]

set_variable(inv, host, name, value) ==
    [inv EXCEPT !.hostvars[host] = DictSet(@, name, value)]

\* inventory.get_host(host).get_vars(): a fresh mapping of the host's facts
get_vars(inv, host) == inv.hostvars[host]

(***************************************************************************)
(* Execution of one instruction.  The operators below take and return the  *)
(* objects a call can change: x = [vs, inv, av], the variable storage, the *)
(* Inventory and templar.available_variables.                              *)
(***************************************************************************)
HostName == AllHosts[hostIdx]

\* the result of an execute_action: [sig, x]
Raise(err, x) == [sig |-> err, x |-> x]
Return(b, x) == [sig |-> Ret(b), x |-> x]

\* mutant: no group has to exist
GroupMustExistNot(x, real_name, must_exist) ==
    [err |-> NoSig, name |-> real_name, x |-> x]

\* get_templated_group, lines 647-651: the group must be in inventory.groups
GroupMustExist(x, real_name, must_exist) ==
    IF must_exist /\ real_name \notin x.inv.groups
    THEN [err |-> AnsibleError("group does not exist"), name |-> "", x |-> x]
    ELSE [err |-> NoSig, name |-> real_name, x |-> x]

\* get_templated_group, lines 635-644: t is the result of templar.template
TemplatedGroup(x, t, name, must_exist) ==
    IF IsError(t.err) THEN [err |-> t.err, name |-> "", x |-> x]
    ELSE IF ~IsString(name)
    THEN [err |-> AnsibleError("did not coalesce into a string"),
          name |-> "", x |-> x]
    ELSE IF t.v.t # "str"
    THEN [err |-> OtherError("object has no attribute 'strip'"),
          name |-> "", x |-> x]
    ELSE IF HasInvalidChars(strip(t.v.s))
    THEN [err |-> AnsibleError("is not a valid group name"), name |-> "", x |-> x]
    ELSE GroupMustExist(x, strip(t.v.s), must_exist)

\* RcInstruction.get_templated_group: [err, name, x]
get_templated_group(x, may_be_template, name, must_exist) ==
    IF may_be_template
    THEN TemplatedGroup([x EXCEPT !.av = hostIdx],
                        template(Bound(hostIdx, x.vs), name), name, must_exist)
    ELSE GroupMustExist(x, name.s, must_exist)

\* RciCreateGroup.execute_action, lines 719-722: c is the result of add_child
CreateGroupAddHost(instr, n, inv) ==
    IF Truthy(instr.add_host)
    THEN IF IsError(add_child(inv, n.name, HostName).err)
         THEN Raise(add_child(inv, n.name, HostName).err, [n.x EXCEPT !.inv = inv])
         ELSE Return(TRUE, [n.x EXCEPT !.inv = add_child(inv, n.name, HostName).inv])
    ELSE Return(TRUE, [n.x EXCEPT !.inv = inv])

\* lines 714-718: the group n is added, then linked to its parent p
CreateGroupAdd(instr, p, n) ==
    IF IsError(n.err) THEN Raise(n.err, n.x)
    ELSE IF instr.parent_name = None
    THEN CreateGroupAddHost(instr, n, add_group(n.x.inv, n.name))
    ELSE IF IsError(add_child(add_group(n.x.inv, n.name), p.name, n.name).err)
    THEN Raise(add_child(add_group(n.x.inv, n.name), p.name, n.name).err,
               [n.x EXCEPT !.inv = add_group(n.x.inv, n.name)])
    ELSE CreateGroupAddHost(instr, n,
             add_child(add_group(n.x.inv, n.name), p.name, n.name).inv)

\* line 713: the name of the group, once the parent p is known
CreateGroupNamed(instr, p) ==
    IF IsError(p.err) THEN Raise(p.err, p.x)
    ELSE CreateGroupAdd(instr, p,
             get_templated_group(p.x, instr.group_mbt, instr.group_name, FALSE))

\* RciCreateGroup.execute_action
CreateGroupExecute(instr, x) ==
    IF instr.parent_name # None
    THEN CreateGroupNamed(instr,
             get_templated_group(x, instr.parent_mbt, instr.parent_name, TRUE))
    ELSE CreateGroupNamed(instr, [err |-> NoSig, name |-> "", x |-> x])

\* lines 745-747: the host is added to the group n
AddHostTo(n, c) ==
    IF IsError(c.err) THEN Raise(c.err, n.x)
    ELSE Return(TRUE, [n.x EXCEPT !.inv = c.inv])

AddHostNamed(n) ==
    IF IsError(n.err) THEN Raise(n.err, n.x)
    ELSE AddHostTo(n, add_child(n.x.inv, n.name, HostName))

\* RciAddHost.execute_action
AddHostExecute(instr, x) ==
    AddHostNamed(get_templated_group(x, instr.may_be_template, instr.group, TRUE))

\* lines 782-784: the child c is added to the group g
AddChildTo(g, c) ==
    IF IsError(c.err) THEN Raise(c.err, c.x)
    ELSE IF IsError(add_child(c.x.inv, g.name, c.name).err)
    THEN Raise(add_child(c.x.inv, g.name, c.name).err, c.x)
    ELSE Return(TRUE, [c.x EXCEPT !.inv = add_child(c.x.inv, g.name, c.name).inv])

\* lines 779-781: the name of the child, once the group g is known
AddChildNamed(instr, g) ==
    IF IsError(g.err) THEN Raise(g.err, g.x)
    ELSE AddChildTo(g, get_templated_group(g.x, instr.child_mbt,
                                           instr.child_name, TRUE))

\* RciAddChild.execute_action
AddChildExecute(instr, x) ==
    AddChildNamed(instr, get_templated_group(x, instr.group_mbt,
                                             instr.group_name, TRUE))

\* mutant: the value is written as a fact and as a script-local alike
SetVarOrFactValueBoth(instr, x, name, value) ==
    IF IsError(value.err) THEN Raise(value.err, x)
    ELSE Return(TRUE, [x EXCEPT !.inv = set_variable(@, HostName, name, value.v),
                                !.vs = SetItem(SetHostVar(@, name, value.v),
                                               name, value.v)])

\* lines 847-857: the value is evaluated, then the fact or the variable is set
SetVarOrFactValue(instr, x, name, value) ==
    IF IsError(value.err) THEN Raise(value.err, x)
    ELSE IF instr.is_fact
    THEN Return(TRUE, [x EXCEPT !.inv = set_variable(@, HostName, name, value.v),
                                !.vs = SetHostVar(@, name, value.v)])
    ELSE Return(TRUE, [x EXCEPT !.vs = SetItem(@, name, value.v)])

\* lines 835-844: n is the result of the evaluation of a templated name
SetVarOrFactNamed(instr, x, n) ==
    IF IsError(n.err) THEN Raise(n.err, x)
    ELSE IF ~IsString(n.v)
    THEN Raise(AnsibleError("did not coalesce into a string"), x)
    ELSE IF ~isidentifier(n.v.s)
    THEN Raise(AnsibleError("is not a valid variable name"), x)
    ELSE SetVarOrFactValue(instr, x, n.v.s,
                           template(Bound(x.av, x.vs), instr.var_value))

\* RciSetVarOrFact.execute_action, with available_variables set (line 833)
SetVarOrFactBound(instr, x) ==
    IF instr.name_may_be_template
    THEN SetVarOrFactNamed(instr, x, template(Bound(x.av, x.vs), instr.var_name))
    ELSE SetVarOrFactValue(instr, x, instr.var_name.s,
                           template(Bound(x.av, x.vs), instr.var_value))

\* RciSetVarOrFact.execute_action
SetVarOrFactExecute(instr, x) == SetVarOrFactBound(instr, [x EXCEPT !.av = hostIdx])

\* RciStop.execute_action
StopExecute(instr, x) == Return(FALSE, x)

\* the default message of fail, "fail requested (<host>)"
FailRequested(host) ==
    CASE host = "h1" -> "fail requested (h1)"
      [] host = "h2" -> "fail requested (h2)"
      [] host = "h3" -> "fail requested (h3)"
      [] OTHER -> "fail requested (h4)"

\* lines 895-897: m is the result of the evaluation of the message
FailWith(x, m) ==
    IF IsError(m.err) THEN Raise(m.err, x) ELSE Raise(AnsibleError(m.v.s), x)

\* RciFail.execute_action
FailExecute(instr, x) ==
    IF instr.message = None THEN Raise(AnsibleError(FailRequested(HostName)), x)
    ELSE FailWith([x EXCEPT !.av = hostIdx],
                  template(Bound(hostIdx, x.vs), instr.message))

\* execute_action of the instructions that are not blocks
execute_action(instr, x) ==
    CASE instr.action = "create_group" -> CreateGroupExecute(instr, x)
      [] instr.action = "add_host" -> AddHostExecute(instr, x)
      [] instr.action = "add_child" -> AddChildExecute(instr, x)
      [] instr.action \in {"set_fact", "set_var"} -> SetVarOrFactExecute(instr, x)
      [] instr.action = "stop" -> StopExecute(instr, x)
      [] instr.action = "fail" -> FailExecute(instr, x)

\* mutant: every entry is evaluated in the storage as it was before the
\* iteration
RECURSIVE AssignLocalsAtOnce(_, _, _)
AssignLocalsAtOnce(instr, x, i) ==
    IF i > Len(instr.vars) THEN [err |-> NoSig, x |-> x]
    ELSE IF IsError(template(Bound(x.av, variables), instr.vars[i][2]).err)
    THEN [err |-> template(Bound(x.av, variables), instr.vars[i][2]).err, x |-> x]
    ELSE AssignLocalsAtOnce(instr,
             [x EXCEPT !.vs = SetItem(@, instr.vars[i][1],
                                 template(Bound(x.av, variables), instr.vars[i][2]).v)],
             i + 1)

\* RcInstruction.compute_locals, lines 591-594: [err, x]; the entries before a
\* failing one stay assigned
RECURSIVE AssignLocals(_, _, _)
AssignLocals(instr, x, i) ==
    IF i > Len(instr.vars) THEN [err |-> NoSig, x |-> x]
    ELSE IF IsError(template(Bound(x.av, x.vs), instr.vars[i][2]).err)
    THEN [err |-> template(Bound(x.av, x.vs), instr.vars[i][2]).err, x |-> x]
    ELSE AssignLocals(instr,
             [x EXCEPT !.vs = SetItem(@, instr.vars[i][1],
                                 template(Bound(x.av, x.vs), instr.vars[i][2]).v)],
             i + 1)

\* mutant: compute_locals leaves templar.available_variables as it finds it
compute_localsStale(instr, x) == AssignLocals(instr, x, 1)

\* RcInstruction.compute_locals
compute_locals(instr, x) == AssignLocals(instr, [x EXCEPT !.av = hostIdx], 1)

\* evaluate_condition, line 573: boolean() of the result t of the template
ConditionValue(t) ==
    IF IsError(t.err) THEN [err |-> t.err, v |-> FALSE] ELSE boolean(t.v)

\* RcInstruction.evaluate_condition: [err, v]
evaluate_condition(instr, x) ==
    IF instr.condition = None THEN [err |-> NoSig, v |-> TRUE]
    ELSE ConditionValue(template(Bound(x.av, x.vs), Tpl(instr.condition.s)))

\* evaluate_loop, lines 612-616: the value must be a list
LoopValue(x, value) ==
    IF IsError(value.err) THEN [err |-> value.err, v |-> <<>>, x |-> x]
    ELSE IF value.v.t # "list"
    THEN [err |-> AnsibleError("did not evaluate to a list"), v |-> <<>>, x |-> x]
    ELSE [err |-> NoSig, v |-> value.v.l, x |-> x]

\* RcInstruction.evaluate_loop: [err, v, x]
evaluate_loop(instr, x) ==
    LoopValue([x EXCEPT !.av = hostIdx], template(Bound(hostIdx, x.vs), instr.loop))

(***************************************************************************)
(* The call stack.  Frames, innermost last:                                *)
(*   [k = "exec", i]                  exec_for_host, at instruction i      *)
(*   [k = "run_for", path, st, items, res, entry, item]      run_for       *)
(*   [k = "block", path, sec, idx, pend]     RciBlock.execute_action       *)
(***************************************************************************)
Top == stack[Len(stack)]
Pop(stk) == SubSeq(stk, 1, Len(stk) - 1)
ReplaceTop(stk, f) == Append(Pop(stk), f)

CallRunFor(path) ==
    [k |-> "run_for", path |-> path, st |-> "enter", items |-> <<>>,
     res |-> NoSig, entry |-> EmptyDict, item |-> EmptyDict]

\* the script-local bindings of a set of names
Bindings(vs, names) == [n \in names \cap DOMAIN vs.script_vars |-> vs.script_vars[n]]

Ev(e, path, d) == [e |-> e, path |-> path, host |-> hostIdx, d |-> d]

X == [vs |-> variables, inv |-> inventory, av |-> available_variables]

(***************************************************************************)
(* RcInstruction.run_for                                                   *)
(***************************************************************************)
\* mutant: the run-once check never finds the instruction already executed
AlreadyExecutedNever(instr) == FALSE

\* line 505: self._executed_once is True
AlreadyExecuted(instr) == instr.executed_once = Bool(TRUE)

\* mutant: marking the instruction also drops its condition
MarkExecutedUnconditional(instrs, path) ==
    IF instrs[path].executed_once = Bool(FALSE)
    THEN [instrs EXCEPT ![path].executed_once = Bool(TRUE),
                        ![path].condition = None]
    ELSE instrs

\* mutant: an instruction with a condition or a loop is not marked on entry
MarkExecutedIfPlain(instrs, path) ==
    IF /\ instrs[path].executed_once = Bool(FALSE)
       /\ instrs[path].condition = None /\ instrs[path].loop = None
    THEN [instrs EXCEPT ![path].executed_once = Bool(TRUE)]
    ELSE instrs

\* mutant: the instruction is not marked as executed
MarkExecutedNot(instrs, path) == instrs

\* lines 507-508: a run_once instruction not yet executed is marked
MarkExecuted(instrs, path) ==
    IF instrs[path].executed_once = Bool(FALSE)
    THEN [instrs EXCEPT ![path].executed_once = Bool(TRUE)]
    ELSE instrs

\* lines 505-510: the run-once check, then the push of the save set
RunForEnter ==
    /\ pc = "run" /\ stack # <<>> /\ Top.k = "run_for" /\ Top.st = "enter"
    /\ LET instr == instructions[Top.path] IN
       IF AlreadyExecuted(instr)
       THEN /\ stack' = Pop(stack)
            /\ sig' = Ret(TRUE)
            /\ log' = Append(log, Ev("skip", Top.path, [ret |-> Ret(TRUE)]))
            /\ UNCHANGED <<variables, instructions>>
       ELSE /\ instructions' = MarkExecuted(instructions, Top.path)
            /\ variables' = ScriptStackPush(variables, SeqToSet(instr.save))
            /\ stack' = ReplaceTop(stack,
                  [Top EXCEPT !.st = "body",
                              !.entry = Bindings(variables, SeqToSet(instr.save))])
            /\ sig' = NoSig
            /\ log' = Append(log, Ev("enter", Top.path,
                                     [locals |-> variables.script_vars,
                                      depth |-> Len(variables.script_stack)]))
    /\ UNCHANGED <<pc, source, strictness, inventory, hostIdx,
                   available_variables, discarded, vsOp, vsBefore>>

\* mutant: without a loop run_for returns True whatever the iteration gave
AfterIterationTrue(instr, o) ==
    IF instr.loop = None THEN [st |-> "finally", res |-> Ret(TRUE)]
    ELSE IF o.k = "ret" /\ o.v THEN [st |-> "loop", res |-> NoSig]
    ELSE IF o.k = "ret" THEN [st |-> "finally", res |-> Ret(FALSE)]
    ELSE [st |-> "finally", res |-> o]

\* mutant: the loop goes on after an iteration that returned False
AfterIterationGoOn(instr, o) ==
    IF instr.loop = None THEN [st |-> "finally", res |-> o]
    ELSE IF o.k = "ret" THEN [st |-> "loop", res |-> NoSig]
    ELSE [st |-> "finally", res |-> o]

\* where run_for goes once an iteration has produced the outcome o
AfterIteration(instr, o) ==
    IF instr.loop = None THEN [st |-> "finally", res |-> o]
    ELSE IF o.k = "ret" /\ o.v THEN [st |-> "loop", res |-> NoSig]
    ELSE IF o.k = "ret" THEN [st |-> "finally", res |-> Ret(FALSE)]
    ELSE [st |-> "finally", res |-> o]

\* the end of an iteration that opened no block: the outcome o goes to
\* run_for, x2 are the objects as the iteration leaves them
IterationEnd(f, o, x2, events) ==
    /\ variables' = x2.vs
    /\ inventory' = x2.inv
    /\ available_variables' = x2.av
    /\ stack' = ReplaceTop(stack,
          [f EXCEPT !.st = AfterIteration(instructions[f.path], o).st,
                    !.res = AfterIteration(instructions[f.path], o).res])
    /\ log' = log \o events \o <<Ev("iter", f.path, [out |-> o])>>

EvLocals(f, loc) ==
    Ev("locals", f.path,
       [ok |-> ~IsError(loc.err), av |-> loc.x.av, item |-> f.item,
        bound |-> Bindings(loc.x.vs,
                     {instructions[f.path].vars[i][1] :
                         i \in 1..Len(instructions[f.path].vars)})])
EvCond(f, loc, cond) ==
    Ev("cond", f.path, [ok |-> ~IsError(cond.err), v |-> cond.v, av |-> loc.x.av])
EvAction(f) == Ev("action", f.path, [action |-> instructions[f.path].action])

\* run_iteration, line 543: execute_action; that of a block opens a block
\* frame, that of another instruction gives its result r at once
IterationBlock(f, loc, cond) ==
    /\ variables' = loc.x.vs
    /\ inventory' = loc.x.inv
    /\ available_variables' = loc.x.av
    /\ stack' = Append(ReplaceTop(stack, [f EXCEPT !.st = "wait"]),
                       [k |-> "block", path |-> f.path, sec |-> "block",
                        idx |-> 1, pend |-> NoSig])
    /\ log' = log \o <<EvLocals(f, loc), EvCond(f, loc, cond), EvAction(f),
                       Ev("section", f.path, [sec |-> "block"])>>

IterationAction(f, loc, cond, r) ==
    IterationEnd(f, r.sig, r.x,
                 <<EvLocals(f, loc), EvCond(f, loc, cond), EvAction(f),
                   Ev("result", f.path,
                      [sig |-> r.sig, av |-> r.x.av, vs |-> r.x.vs])>>)

\* run_iteration, lines 542-551: cond is the result of evaluate_condition
IterationCondition(f, loc, cond) ==
    IF IsError(cond.err)
    THEN IterationEnd(f, cond.err, loc.x, <<EvLocals(f, loc), EvCond(f, loc, cond)>>)
    ELSE IF ~cond.v
    THEN IterationEnd(f, Ret(TRUE), loc.x, <<EvLocals(f, loc), EvCond(f, loc, cond)>>)
    ELSE IF instructions[f.path].action = "block"
    THEN IterationBlock(f, loc, cond)
    ELSE IterationAction(f, loc, cond, execute_action(instructions[f.path], loc.x))

\* run_iteration, line 541: loc is the result of compute_locals
IterationLocals(f, loc) ==
    IF IsError(loc.err)
    THEN IterationEnd(f, loc.err, loc.x, <<EvLocals(f, loc)>>)
    ELSE IterationCondition(f, loc, evaluate_condition(instructions[f.path], loc.x))

\* RcInstruction.run_iteration, from the objects x, in the frame f (the top
\* frame): compute_locals, evaluate_condition, then execute_action
run_iteration(f, x) == IterationLocals(f, compute_locals(instructions[f.path], x))

\* run_for, line 517: l is the result of evaluate_loop
\* mutant: the items of a loop source that failed are taken to be none,
\* and the loop goes on
LoopEvaluatedGoesOn(f, l) ==
    /\ available_variables' = l.x.av
    /\ stack' = ReplaceTop(stack, [f EXCEPT !.st = "loop", !.items = l.v])
    /\ log' = Append(log, Ev("loop", f.path,
                             [ok |-> ~IsError(l.err), items |-> l.v,
                              av |-> l.x.av, err |-> l.err]))
    /\ UNCHANGED <<variables, inventory>>

LoopEvaluated(f, l) ==
    /\ available_variables' = l.x.av
    /\ stack' = ReplaceTop(stack,
          IF IsError(l.err)
          THEN [f EXCEPT !.st = "finally", !.res = l.err]
          ELSE [f EXCEPT !.st = "loop", !.items = l.v])
    /\ log' = Append(log, Ev("loop", f.path,
                             [ok |-> ~IsError(l.err), items |-> l.v,
                              av |-> l.x.av, err |-> l.err]))
    /\ UNCHANGED <<variables, inventory>>

\* lines 512-517: without a loop, the single iteration; with a loop, the
\* evaluation of its source
RunForBody ==
    /\ pc = "run" /\ stack # <<>> /\ Top.k = "run_for" /\ Top.st = "body"
    /\ LET instr == instructions[Top.path] IN
       IF instr.loop = None
       THEN run_iteration(Top, X)
       ELSE LoopEvaluated(Top, evaluate_loop(instr, X))
    /\ UNCHANGED <<pc, source, strictness, instructions, hostIdx, discarded,
                   sig, vsOp, vsBefore>>

\* lines 517-525: the next item of the loop, or the end of the loop
RunForLoop ==
    /\ pc = "run" /\ stack # <<>> /\ Top.k = "run_for" /\ Top.st = "loop"
    /\ LET instr == instructions[Top.path] IN
       IF Top.items = <<>>
       THEN /\ stack' = ReplaceTop(stack,
                  [Top EXCEPT !.st = "finally", !.res = Ret(TRUE)])
            /\ UNCHANGED <<variables, inventory, available_variables, log>>
       ELSE run_iteration(
                [Top EXCEPT !.items = Tail(@),
                            !.item = Bindings(SetItem(variables, instr.loop_var.s,
                                                      Str(Head(Top.items))),
                                              {instr.loop_var.s})],
                [X EXCEPT !.vs = SetItem(@, instr.loop_var.s, Str(Head(Top.items)))])
    /\ UNCHANGED <<pc, source, strictness, instructions, hostIdx, discarded,
                   sig, vsOp, vsBefore>>

\* the block run by execute_action has returned or raised
RunForResume ==
    /\ pc = "run" /\ stack # <<>> /\ Top.k = "run_for" /\ Top.st = "wait"
    /\ sig # NoSig
    /\ LET instr == instructions[Top.path] IN
       stack' = ReplaceTop(stack,
                  [Top EXCEPT !.st = AfterIteration(instr, sig).st,
                              !.res = AfterIteration(instr, sig).res])
    /\ sig' = NoSig
    /\ log' = Append(log, Ev("iter", Top.path, [out |-> sig]))
    /\ UNCHANGED <<pc, source, strictness, instructions, inventory, hostIdx,
                   available_variables, discarded, variables, vsOp, vsBefore>>

\* lines 526-528: the finally clause pops the save record, then run_for
\* returns or raises
RunForExit ==
    /\ pc = "run" /\ stack # <<>> /\ Top.k = "run_for" /\ Top.st = "finally"
    /\ LET instr == instructions[Top.path] IN
       /\ variables' = ScriptStackPop(variables)
       /\ log' = Append(log, Ev("exit", Top.path,
              [res |-> Top.res,
               save |-> SeqToSet(instr.save),
               entry |-> Top.entry,
               exit |-> Bindings(ScriptStackPop(variables), SeqToSet(instr.save)),
               locals |-> ScriptStackPop(variables).script_vars,
               depth |-> Len(variables.script_stack) - 1,
               vs |-> ScriptStackPop(variables)]))
    /\ stack' = Pop(stack)
    /\ sig' = Top.res
    /\ UNCHANGED <<pc, source, strictness, instructions, inventory, hostIdx,
                   available_variables, discarded, vsOp, vsBefore>>

(***************************************************************************)
(* RciBlock.execute_action and run_section                                 *)
(***************************************************************************)
Section(f) == instructions[f.path][f.sec]

\* run_section, line 1016: run_for is called on the next instruction
BlockCall ==
    /\ pc = "run" /\ stack # <<>> /\ Top.k = "block"
    /\ sig = NoSig /\ Top.idx <= Len(Section(Top))
    /\ stack' = Append(stack, CallRunFor(Section(Top)[Top.idx]))
    /\ UNCHANGED <<pc, source, strictness, instructions, inventory, hostIdx,
                   available_variables, discarded, sig, log, variables,
                   vsOp, vsBefore>>

\* run_section, line 1015: the instruction returned True, on to the next one
BlockNext ==
    /\ pc = "run" /\ stack # <<>> /\ Top.k = "block"
    /\ sig = Ret(TRUE)
    /\ stack' = ReplaceTop(stack, [Top EXCEPT !.idx = @ + 1])
    /\ sig' = NoSig
    /\ UNCHANGED <<pc, source, strictness, instructions, inventory, hostIdx,
                   available_variables, discarded, log, variables, vsOp, vsBefore>>

\* what run_section returns or raises, when it is over: True at the end of the
\* list, False as soon as an instruction returns False, the error of an
\* instruction that raises
SectionOver(f) ==
    \/ sig = NoSig /\ f.idx > Len(Section(f))
    \/ sig = Ret(FALSE)
    \/ IsError(sig)
SectionOutcome(f) == IF sig = NoSig THEN Ret(TRUE) ELSE sig

\* mutant: the always section is not run when block or rescue raised
NextSectionNoFinally(instr, sec, o) ==
    IF sec = "block" /\ o.k = "AnsibleError" /\ instr.rescue # <<>> THEN "rescue"
    ELSE IF sec \in {"block", "rescue"} /\ ~IsError(o) THEN "always"
    ELSE "exit"

\* mutant: an error of the block section goes to the rescue section even when
\* that section is empty
NextSectionRescueEmpty(instr, sec, o) ==
    IF sec = "block" /\ o.k = "AnsibleError" THEN "rescue"
    ELSE IF sec \in {"block", "rescue"} THEN "always"
    ELSE "exit"

\* mutant: an exception of any kind raised by the block section is rescued
NextSectionRescueAny(instr, sec, o) ==
    IF sec = "block" /\ IsError(o) /\ instr.rescue # <<>> THEN "rescue"
    ELSE IF sec \in {"block", "rescue"} THEN "always"
    ELSE "exit"

\* mutant: no error is rescued
NextSectionNoRescue(instr, sec, o) ==
    IF sec \in {"block", "rescue"} THEN "always" ELSE "exit"

\* lines 986-999, the try statements of execute_action: where control goes
\* when the section sec is over with the outcome o.  An AnsibleError of the
\* block section runs the rescue section if there is one; whatever else ends
\* block or rescue runs the always section (finally); the end of the always
\* section ends execute_action
NextSection(instr, sec, o) ==
    IF sec = "block" /\ o.k = "AnsibleError" /\ instr.rescue # <<>> THEN "rescue"
    ELSE IF sec \in {"block", "rescue"} THEN "always"
    ELSE "exit"

\* lines 990-996: the except clause
BlockRescue ==
    /\ pc = "run" /\ stack # <<>> /\ Top.k = "block"
    /\ SectionOver(Top)
    /\ NextSection(instructions[Top.path], Top.sec, SectionOutcome(Top)) = "rescue"
    /\ variables' = SetItem(variables, "reconstructed_error", Str(sig.msg))
    /\ stack' = ReplaceTop(stack, [Top EXCEPT !.sec = "rescue", !.idx = 1])
    /\ sig' = NoSig
    /\ log' = log \o <<Ev("rescued", Top.path, [msg |-> sig.msg]),
                       Ev("section", Top.path, [sec |-> "rescue"])>>
    /\ UNCHANGED <<pc, source, strictness, instructions, inventory, hostIdx,
                   available_variables, discarded, vsOp, vsBefore>>

\* lines 997-999: the finally clause; the outcome of block or rescue is kept
\* while the always section runs
BlockFinally ==
    /\ pc = "run" /\ stack # <<>> /\ Top.k = "block"
    /\ SectionOver(Top)
    /\ NextSection(instructions[Top.path], Top.sec, SectionOutcome(Top)) = "always"
    /\ stack' = ReplaceTop(stack,
          [Top EXCEPT !.sec = "always", !.idx = 1, !.pend = SectionOutcome(Top)])
    /\ sig' = NoSig
    /\ log' = log \o <<Ev("section_end", Top.path,
                          [sec |-> Top.sec, out |-> SectionOutcome(Top)]),
                       Ev("section", Top.path, [sec |-> "always"])>>
    /\ UNCHANGED <<pc, source, strictness, instructions, inventory, hostIdx,
                   available_variables, discarded, variables, vsOp, vsBefore>>

\* mutant: an interrupt of block or rescue is lost once the always section
\* has run
BlockResultInterruptLost(f, o) ==
    IF f.sec # "always" THEN o
    ELSE IF IsError(o) THEN o
    ELSE IF IsError(f.pend) THEN f.pend
    ELSE Ret(TRUE)

\* mutant: an error of the rescue section is caught by the block in its turn
BlockResultRescueCaught(f, o) ==
    IF f.sec # "always" THEN o
    ELSE IF IsError(o) THEN o
    ELSE IF f.pend.k = "AnsibleError" /\ instructions[f.path].rescue # <<>>
    THEN Ret(TRUE)
    ELSE f.pend

\* mutant: an error of the always section is lost, the outcome kept from block
\* or rescue comes out
BlockResultPending(f, o) == IF f.sec # "always" THEN o ELSE f.pend

\* mutant: the always section returns its own result (a return in finally)
BlockResultOfAlways(f, always) == IF f.sec = "always" THEN always ELSE f.pend

\* what execute_action returns or raises once the section f.sec is over with
\* the outcome o and nothing is left to run: after the always section, its
\* error if it raised, else the outcome kept from block or rescue
BlockResult(f, o) ==
    IF f.sec # "always" THEN o
    ELSE IF IsError(o) THEN o
    ELSE f.pend

\* mutant: the block unbinds reconstructed_error when it is over
BlockExitUnbinds ==
    /\ pc = "run" /\ stack # <<>> /\ Top.k = "block"
    /\ SectionOver(Top)
    /\ NextSection(instructions[Top.path], Top.sec, SectionOutcome(Top)) = "exit"
    /\ stack' = Pop(stack)
    /\ sig' = BlockResult(Top, SectionOutcome(Top))
    /\ log' = log \o <<Ev("section_end", Top.path,
                          [sec |-> Top.sec, out |-> SectionOutcome(Top)]),
                       Ev("block_exit", Top.path,
                          [pend |-> Top.pend,
                           out |-> BlockResult(Top, SectionOutcome(Top))])>>
    /\ variables' = DelItem(variables, "reconstructed_error")
    /\ UNCHANGED <<pc, source, strictness, instructions, inventory, hostIdx,
                   available_variables, discarded, vsOp, vsBefore>>

\* end of the finally clause: execute_action returns or raises
BlockExit ==
    /\ pc = "run" /\ stack # <<>> /\ Top.k = "block"
    /\ SectionOver(Top)
    /\ NextSection(instructions[Top.path], Top.sec, SectionOutcome(Top)) = "exit"
    /\ stack' = Pop(stack)
    /\ sig' = BlockResult(Top, SectionOutcome(Top))
    /\ log' = log \o <<Ev("section_end", Top.path,
                          [sec |-> Top.sec, out |-> SectionOutcome(Top)]),
                       Ev("block_exit", Top.path,
                          [pend |-> Top.pend,
                           out |-> BlockResult(Top, SectionOutcome(Top))])>>
    /\ UNCHANGED <<pc, source, strictness, instructions, inventory, hostIdx,
                   available_variables, discarded, variables, vsOp, vsBefore>>

(***************************************************************************)
(* InventoryModule.parse and exec_for_host                                 *)
(***************************************************************************)
\* mutant: the hosts are run whatever parsing gave
AfterParseAlways(p) == "hosts"

\* lines 1054-1059: the program is parsed; an exception raised by
\* parse_instruction leaves parse before the loop over the hosts
AfterParse(p) ==
    IF p.ok THEN "hosts"
    ELSE IF p.error = "AnsibleParserError" THEN "parse_error" ELSE "parse_crash"

Parse ==
    /\ pc = "parse"
    /\ LET p == ParseProgram(source, 1) IN
       /\ instructions' = IF p.ok THEN p.tab ELSE instructions
       /\ pc' = AfterParse(p)
    /\ UNCHANGED <<source, strictness, inventory, hostIdx, available_variables,
                   discarded, stack, sig, log, variables, vsOp, vsBefore>>

\* mutant: the script-locals of the previous host are kept
HostStorageKept(inv, host) ==
    [NewVariableStorage(get_vars(inv, host)) EXCEPT
        !.script_vars = variables.script_vars,
        !.cache = variables.script_vars @@ get_vars(inv, host)]

\* exec_for_host, lines 1083-1084: a VariableStorage built on the host's facts
HostStorage(inv, host) == NewVariableStorage(get_vars(inv, host))

\* lines 1062-1065 and 1083-1084: the next host, with a new VariableStorage
StartHost ==
    /\ pc = "hosts" /\ hostIdx < NHosts
    /\ hostIdx' = hostIdx + 1
    /\ variables' = HostStorage(inventory, AllHosts[hostIdx + 1])
    /\ stack' = <<[k |-> "exec", i |-> 1]>>
    /\ sig' = NoSig
    /\ pc' = "run"
    /\ log' = Append(log, [e |-> "host_start", path |-> <<>>,
                           host |-> hostIdx + 1, d |-> None])
    /\ UNCHANGED <<source, strictness, instructions, inventory,
                   available_variables, discarded, vsOp, vsBefore>>

\* line 1086: run_for is called on the next top-level instruction
ExecCall ==
    /\ pc = "run" /\ stack # <<>> /\ Top.k = "exec"
    /\ sig = NoSig /\ Top.i <= Len(source)
    /\ stack' = Append(stack, CallRunFor(<<Top.i>>))
    /\ UNCHANGED <<pc, source, strictness, instructions, inventory, hostIdx,
                   available_variables, discarded, sig, log, variables,
                   vsOp, vsBefore>>

\* line 1085: the instruction returned True, on to the next one
ExecNext ==
    /\ pc = "run" /\ stack # <<>> /\ Top.k = "exec"
    /\ sig = Ret(TRUE)
    /\ stack' = ReplaceTop(stack, [Top EXCEPT !.i = @ + 1])
    /\ sig' = NoSig
    /\ UNCHANGED <<pc, source, strictness, instructions, inventory, hostIdx,
                   available_variables, discarded, log, variables, vsOp, vsBefore>>

\* the storage of the host is dropped when exec_for_host is over
EndHost(outcome, nextpc) ==
    /\ stack' = <<>>
    /\ sig' = NoSig
    /\ pc' = nextpc
    /\ discarded' = [h \in (DOMAIN discarded) \cup {hostIdx} |->
                        IF h = hostIdx THEN variables ELSE discarded[h]]
    /\ log' = Append(log, Ev("host_end", <<>>, [out |-> outcome, at |-> Top.i]))
    /\ UNCHANGED <<source, strictness, instructions, inventory, hostIdx,
                   available_variables, variables, vsOp, vsBefore>>

\* lines 1085-1087: exec_for_host returns at the end of the program or when
\* an instruction returns False
ExecReturn ==
    /\ pc = "run" /\ stack # <<>> /\ Top.k = "exec"
    /\ \/ sig = NoSig /\ Top.i > Len(source)
       \/ sig = Ret(FALSE)
    /\ EndHost(IF sig = NoSig THEN Ret(TRUE) ELSE sig, "hosts")

\* mutant: the error is raised again whatever the strictness
AfterHostErrorRaise(strict) == "aborted"

\* mutant: the error is displayed as a warning whatever the strictness
AfterHostErrorWarn(strict) == "hosts"

\* lines 1067-1071: under strictness full the error is raised again and ends
\* parse; otherwise a warning is displayed and the loop goes on
AfterHostError(strict) == IF strict = "full" THEN "aborted" ELSE "hosts"

\* lines 1066-1071: the except clause of the loop over the hosts
HostError ==
    /\ pc = "run" /\ stack # <<>> /\ Top.k = "exec"
    /\ sig.k = "AnsibleError"
    /\ EndHost(sig, AfterHostError(strictness))

\* an exception that is not an AnsibleError leaves parse
HostCrash ==
    /\ pc = "run" /\ stack # <<>> /\ Top.k = "exec"
    /\ sig.k = "Exception"
    /\ EndHost(sig, "aborted")

\* line 1062: no host is left
Finish ==
    /\ pc = "hosts" /\ hostIdx = NHosts
    /\ pc' = "done"
    /\ UNCHANGED <<source, strictness, instructions, inventory, hostIdx,
                   available_variables, discarded, stack, sig, log, variables,
                   vsOp, vsBefore>>

(***************************************************************************)
(* A VariableStorage under any sequence of its operations.                 *)
(***************************************************************************)
VSNames == {"x", "y"}
VSValues == {Str("1"), Str("2")}
VSDicts == UNION {[D -> VSValues] : D \in SUBSET VSNames}

\* vsOp tells a push, a pop that follows a push ("push_pop"), another pop and
\* the other operations apart; vsBefore is kept from a push to the pop that
\* follows it
NoOp == [op |-> "none", names |-> {}]
OtherOp == [op |-> "other", names |-> {}]

IdleRun ==
    /\ pc = "vs"
    /\ source = <<>>
    /\ strictness = "host"
    /\ instructions = EmptyDict
    /\ inventory = [groups |-> {}, children |-> {}, hostvars |-> EmptyDict]
    /\ hostIdx = 0
    /\ available_variables = 0
    /\ discarded = EmptyDict
    /\ stack = <<>>
    /\ sig = NoSig
    /\ log = <<>>

InitVS ==
    /\ IdleRun
    /\ \E host_vars \in VSDicts : variables = NewVariableStorage(host_vars)
    /\ vsOp = NoOp
    /\ vsBefore = variables

VSSetItem(k, v) ==
    /\ pc = "vs"
    /\ variables' = SetItem(variables, k, v)
    /\ vsOp' = OtherOp
    /\ vsBefore' = variables'
    /\ UNCHANGED runVars

VSDelItem(k) ==
    /\ pc = "vs"
    /\ variables' = DelItem(variables, k)
    /\ vsOp' = OtherOp
    /\ vsBefore' = variables'
    /\ UNCHANGED runVars

VSSetHostVar(k, v) ==
    /\ pc = "vs"
    /\ variables' = SetHostVar(variables, k, v)
    /\ vsOp' = OtherOp
    /\ vsBefore' = variables'
    /\ UNCHANGED runVars

VSPush(names) ==
    /\ pc = "vs"
    /\ Len(variables.script_stack) < MaxStack
    /\ variables' = ScriptStackPush(variables, names)
    /\ vsOp' = [op |-> "push", names |-> names]
    /\ vsBefore' = variables
    /\ UNCHANGED runVars

\* a pop of the empty stack raises IndexError before any change
VSPop ==
    /\ pc = "vs"
    /\ variables.script_stack # <<>>
    /\ variables' = ScriptStackPop(variables)
    /\ vsOp' = [op |-> IF vsOp.op = "push" THEN "push_pop" ELSE "pop",
                names |-> DOMAIN variables.script_stack[Len(variables.script_stack)]]
    /\ vsBefore' = IF vsOp.op = "push" THEN vsBefore ELSE variables'
    /\ UNCHANGED runVars

NextVS ==
    \/ \E k \in VSNames, v \in VSValues : VSSetItem(k, v)
    \/ \E k \in VSNames : VSDelItem(k)
    \/ \E k \in VSNames, v \in VSValues : VSSetHostVar(k, v)
    \/ \E names \in SUBSET VSNames : VSPush(names)
    \/ VSPop

SpecVS == InitVS /\ [][NextVS]_vars

(***************************************************************************)
(* The same storage with another history: vsOp tells a store[k] = v on a   *)
(* name of the host facts ("set"), a del store[k] that follows it          *)
(* ("set_del") and the other operations apart.  A set records the host     *)
(* facts it found ("facts"), those it left ("mid") and whether the value   *)
(* differs from the fact of that name ("shadowed"); the del that follows   *)
(* it records the host facts it found ("mid").                             *)
(***************************************************************************)
SDSetItem(k, v) ==
    /\ pc = "vs"
    /\ variables' = SetItem(variables, k, v)
    /\ vsOp' = IF k \in DOMAIN variables.host_vars
              THEN [op |-> "set", names |-> {k}, facts |-> variables.host_vars,
                    mid |-> variables'.host_vars,
                    shadowed |-> variables.host_vars[k] # v]
              ELSE OtherOp
    /\ vsBefore' = variables'
    /\ UNCHANGED runVars

SDDelItem(k) ==
    /\ pc = "vs"
    /\ variables' = DelItem(variables, k)
    /\ vsOp' = IF vsOp.op = "set" /\ vsOp.names = {k}
              THEN [vsOp EXCEPT !.op = "set_del", !.mid = variables.host_vars]
              ELSE OtherOp
    /\ vsBefore' = variables'
    /\ UNCHANGED runVars

\* _set_host_var, _script_stack_push and _script_stack_pop
SDOther ==
    /\ pc = "vs"
    /\ \/ \E k \in VSNames, v \in VSValues :
             variables' = SetHostVar(variables, k, v)
       \/ /\ Len(variables.script_stack) < MaxStack
          /\ \E names \in SUBSET VSNames :
                variables' = ScriptStackPush(variables, names)
       \/ /\ variables.script_stack # <<>>
          /\ variables' = ScriptStackPop(variables)
    /\ vsOp' = OtherOp
    /\ vsBefore' = variables'
    /\ UNCHANGED runVars

NextSD ==
    \/ \E k \in VSNames, v \in VSValues : SDSetItem(k, v)
    \/ \E k \in VSNames : SDDelItem(k)
    \/ SDOther

SpecSD == InitVS /\ [][NextSD]_vars

(***************************************************************************)
(* The programs and inventories the model is run on.                       *)
(***************************************************************************)
LoopItems == SubSeq(<<"a", "b", "c", "d">>, 1, MaxLoop)

\* the facts of the hosts before the run: "flag" is true on odd hosts only
HostFacts(i) ==
    IF i % 2 = 1
    THEN [flag |-> Str("yes"), lst |-> Lst(LoopItems), x |-> Str("0")]
    ELSE [flag |-> Str("no"), lst |-> Lst(LoopItems)]

InitInventory ==
    [groups |-> {"all", "ungrouped"},
     children |-> {},
     hostvars |-> [h \in {AllHosts[i] : i \in 1..NHosts} |->
                      HostFacts(CHOOSE i \in 1..NHosts : AllHosts[i] = h)]]

SetVarX == [action |-> "set_var", name |-> Str("x"), value |-> Str("1")]
SetVarY == [action |-> "set_var", name |-> Str("y"), value |-> Tpl("x")]
SetFactR == [action |-> "set_fact", name |-> Str("r"), value |-> Str("ok")]
StopI == [action |-> "stop"]
FailI == [action |-> "fail"]
FailMsg == [action |-> "fail", msg |-> Tpl("flag")]
SetFactItem == [action |-> "set_fact", name |-> Str("r"), value |-> Tpl("item")]
CreateG1 == [action |-> "create_group", group |-> Str("g1")]
AddHostG1 == [action |-> "add_host", group |-> Str("g1")]

NoMod == EmptyDict
WhenFlag == [when |-> Str("flag")]
WhenX1 == [when |-> Str("x == '1'")]
WhenLst == [when |-> Str("lst")]
WhenItemB == [when |-> Str("item == 'b'")]
LoopAB == [loop |-> Lst(LoopItems)]
LoopX == [loop |-> Lst(LoopItems), loop_var |-> Str("x")]
LoopBad == [loop |-> Tpl("flag")]
RunOnce == [run_once |-> Bool(TRUE)]
RunOnceOff == [run_once |-> Bool(FALSE)]
VarsX == [vars |-> Dict(<< <<"x", Str("2")>> >>)]
VarsBad == [vars |-> Dict(<< <<"x", Str("2")>>, <<"y", Tpl("nope")>> >>)]

Base == {SetVarX, SetFactR, StopI, FailI, CreateG1, AddHostG1}
Mods == {NoMod, WhenFlag, WhenX1, WhenLst, LoopAB, LoopX, LoopBad, RunOnce,
         VarsX, VarsBad, LoopX @@ VarsX, LoopAB @@ VarsBad, RunOnce @@ WhenFlag,
         LoopAB @@ WhenItemB}
Leaves == {m @@ b : m \in Mods, b \in Base}

SeqsUpTo(S, lo, hi) == UNION {[1..n -> S] : n \in lo..hi}

Block(bs, rs, as) ==
    [action |-> "block", block |-> bs, rescue |-> rs, always |-> as]

SecLeaves == {SetVarX, StopI, FailI}
RescueChoices == {<<>>, <<SetFactR>>, <<StopI>>, <<FailI>>, <<SetVarX, SetFactR>>}
AlwaysChoices == {<<>>, <<SetVarY>>, <<StopI>>, <<FailMsg>>}
Blocks ==
    {Block(bs, rs, as) :
        bs \in SeqsUpTo(SecLeaves, 1, MaxSec),
        rs \in RescueChoices,
        as \in AlwaysChoices}

\* blocks with a loop, a run_once or vars and a condition of their own
SmallBlocks ==
    {Block(<<i>>, rs, as) :
        i \in SecLeaves,
        rs \in {<<>>, <<SetFactR>>},
        as \in {<<>>, <<SetVarY>>, <<StopI>>}}
BlockMods == {LoopX, RunOnce, VarsX @@ WhenFlag}
ModBlocks == {m @@ b : m \in BlockMods, b \in SmallBlocks}

\* blocks within a section of a block
Inner ==
    {Block(<<i>>, rs, as) :
        i \in SecLeaves,
        rs \in {<<>>, <<SetFactR>>},
        as \in {<<>>, <<SetVarY>>}}
Nested ==
    {Block(<<i>>, rs, as) :
        i \in Inner, rs \in {<<>>, <<SetFactR>>}, as \in {<<>>, <<SetVarY>>}}
    \cup {Block(<<FailI>>, <<i>>, <<>>) : i \in Inner}
    \cup {Block(bs, <<>>, <<i>>) : bs \in {<<SetVarX>>, <<FailI>>}, i \in Inner}

\* instructions that run several times within one host's run
Repeated ==
    {LoopAB @@ Block(<<RunOnce @@ i>>, <<>>, as) :
        i \in {SetVarX, StopI, FailI, LoopAB @@ SetFactR},
        as \in {<<>>, <<SetVarY>>}}

\* run_once instructions whose first call raises: in the vars, in the
\* condition, in the loop source, in the action
OnceFailing ==
    {RunOnce @@ m @@ SetFactR : m \in {VarsBad, [when |-> Str("nope")], LoopBad}}
    \cup {RunOnce @@ FailI}

\* blocks whose record has no rescue field
NoRescueBlocks ==
    {[action |-> "block", block |-> <<FailI, SetFactR>>] @@ as :
        as \in {EmptyDict, [always |-> <<SetVarX>>], [always |-> <<FailMsg>>]}}

\* blocks whose rescue section raises at its first instruction
RescueFailing ==
    {Block(<<FailI>>, <<FailMsg, SetFactR>>, as) :
        as \in {<<>>, <<SetVarX>>, <<FailI>>}}

\* vars that depend on one another and on the loop variable, with a condition
\* that depends on them
VarsChained ==
    {<<SetVarX,
       [vars |-> Dict(<< <<"x", Str("2")>>, <<"y", Tpl("x")>> >>)]
           @@ WhenX1 @@ SetFactR>>,
     <<[vars |-> Dict(<< <<"x", Str("1")>>, <<"y", Tpl("x")>> >>)]
           @@ WhenX1 @@ SetFactR>>,
     <<LoopAB @@ [vars |-> Dict(<< <<"y", Tpl("item")>>, <<"z", Tpl("y")>> >>)]
           @@ WhenItemB @@ SetFactItem>>}

\* actions on groups that must exist, with and without the groups they need
CreateG2 == [action |-> "create_group", group |-> Str("g2")]
CreateG2In(p) == [action |-> "create_group", group |-> Str("g2"), parent |-> p]
AddChildOf(g, c) == [action |-> "add_child", group |-> g, child |-> c]
GroupPrograms ==
    {<<CreateG2In(p)>> : p \in {Str("g1"), Tpl("flag")}}
    \cup {<<CreateG1, CreateG2In(Str("g1"))>>,
          <<[action |-> "add_host", group |-> Tpl("flag")]>>}
    \cup {pre \o <<AddChildOf(Str("g1"), Str("g2"))>> :
             pre \in {<<>>, <<CreateG1>>, <<CreateG2>>, <<CreateG1, CreateG2>>}}
    \cup {<<CreateG1, AddChildOf(Str("g1"), c)>> : c \in {Str("h1"), Tpl("flag")}}

\* group names given as a template that evaluates to a list
AddHostLst == [action |-> "add_host", group |-> Tpl("lst")]
NonStringNames ==
    {<<AddHostLst>>, <<Block(<<AddHostLst>>, <<SetFactR>>, <<>>)>>,
     <<[action |-> "create_group", group |-> Tpl("lst")]>>,
     <<CreateG1, CreateG2In(Tpl("lst"))>>,
     <<CreateG1, AddChildOf(Str("g1"), Tpl("lst"))>>}

\* a set_fact of a name that the vars or the loop variable of the same
\* instruction bind as a script-local, then an instruction that reads the name
SetFactOf(n) == [action |-> "set_fact", name |-> Str(n), value |-> Str("ok")]
ReadInto(n) == [action |-> "set_fact", name |-> Str("q"), value |-> Tpl(n)]
ShadowedFacts ==
    {<<[vars |-> Dict(<< <<n, Str("local")>> >>)] @@ SetFactOf(n), ReadInto(n)>> :
        n \in {"r", "flag"}}
    \cup {<<[loop |-> Lst(LoopItems), loop_var |-> Str(n)] @@ SetFactOf(n),
            ReadInto(n)>> : n \in {"r", "flag"}}
    \cup {<<[vars |-> Dict(<< <<n, Str("local")>> >>)]
              @@ Block(<<SetFactOf(n), ReadInto(n)>>, <<>>, <<>>),
            SetVarX>> : n \in {"r", "flag"}}

\* a loop source that is no list, vars, and a loop variable bound before
LoopBadX ==
    <<SetVarX,
      [loop |-> Tpl("flag"), loop_var |-> Str("x"),
       vars |-> Dict(<< <<"y", Str("2")>> >>)] @@ SetFactR>>

\* run_once instructions whose first call executes no action: a condition
\* that is false for the first host and true for the second, a condition that
\* is false for the first item and true for the second, a loop of no item
WhenFlagNo == [when |-> Str("flag == 'no'")]
LoopNone == [loop |-> Lst(<<>>)]
OnceIdle ==
    {<<RunOnce @@ WhenFlagNo @@ SetFactR>>,
     <<RunOnce @@ WhenFlagNo @@ Block(<<SetFactR>>, <<>>, <<>>)>>,
     <<RunOnce @@ LoopNone @@ SetFactR>>,
     <<LoopAB @@ Block(<<RunOnce @@ WhenItemB @@ SetFactR>>, <<>>, <<>>)>>}

\* an exception that is not an AnsibleError raised in the block section or in
\* the rescue section of a block which has the three sections, and in a block
\* nested in another
Crashing == {WhenLst @@ SetVarX, AddHostLst}
CrashInBlocks ==
    UNION {{<<Block(<<c>>, <<SetFactR>>, <<a>>)>>,
            <<Block(<<FailI>>, <<c>>, <<a>>)>>,
            <<Block(<<Block(<<c>>, <<SetFactR>>, <<>>)>>, <<SetFactR>>, <<a>>)>>} :
           c \in Crashing, a \in {CreateG1, FailI, StopI}}

\* a block whose rescue section runs, then an instruction that reads
\* reconstructed_error; the block, or an instruction around it, may have the
\* name in its save set
VarsError == [vars |-> Dict(<< <<"reconstructed_error", Str("mine")>> >>)]
LoopError == [loop |-> Lst(LoopItems), loop_var |-> Str("reconstructed_error")]
Rescued(i) == Block(<<i>>, <<SetVarX>>, <<>>)
RescuedThenRead ==
    UNION {{<<m @@ Rescued(i), ReadInto("reconstructed_error")>>,
            <<m @@ Block(<<Rescued(i), ReadInto("reconstructed_error")>>, <<>>, <<>>),
              ReadInto("reconstructed_error")>>,
            <<Rescued(i), m @@ Rescued(FailI), ReadInto("reconstructed_error")>>} :
           m \in {NoMod, VarsError, LoopError}, i \in {FailI, FailMsg, SetFactR}}

Probes == {SetFactR, AddHostG1}

\* blocks with the locals field: a table of variables, and a string
LocalsTable == Dict(<< <<"x", Str("2")>> >>)
LocalsBlocks ==
    {[action |-> "block", block |-> <<i>>, locals |-> l] :
        i \in {SetVarY, SetFactR}, l \in {LocalsTable, Str("no table")}}
AnyInstr == Leaves \cup Blocks \cup ModBlocks \cup Nested \cup Repeated

Programs ==
    {<<i>> : i \in AnyInstr}
    \cup {<<i, p>> : i \in AnyInstr, p \in Probes}
    \cup {<<SetVarX, i>> : i \in Leaves \cup SmallBlocks}
    \cup {<<b>> : b \in LocalsBlocks}
    \cup {<<SetFactR, LoopAB @@ SetFactItem, FailI>>, <<CreateG1, AddHostG1, FailI>>}
    \cup {<<i>> : i \in OnceFailing \cup NoRescueBlocks \cup RescueFailing}
    \cup VarsChained \cup GroupPrograms \cup NonStringNames
    \cup ShadowedFacts \cup {LoopBadX} \cup OnceIdle \cup CrashInBlocks
    \cup RescuedThenRead
    \cup {<<RunOnceOff @@ SetFactR>>,
          <<LoopAB @@ Block(<<RunOnceOff @@ SetFactR>>, <<>>, <<>>)>>}
    \cup {<<LoopAB @@ Block(<<i>>, <<SetFactR>>, <<>>)>> : i \in OnceFailing}

\* the programs run under strictness full
FullPrograms ==
    {<<i, p>> : i \in Leaves \cup SmallBlocks, p \in Probes}
    \cup {<<CreateG1, AddHostG1, FailI>>}

\* records that fail parsing: no action, an unknown action, an unsupported
\* field, a clause of the wrong type, a missing required field
NoAction == [name |-> Str("x"), value |-> Str("1")]
UnknownAction == [action |-> "nothing"]
BadRecords ==
    {NoAction, UnknownAction, StopI @@ [msg |-> Str("m")],
     SetFactR @@ [when |-> Bool(TRUE)], [action |-> "add_host"],
     SetFactR @@ [run_once |-> Str("yes")]}

\* a record that fails parsing nested in each section of a block, with and
\* without a rescue section beside it
BadBlocks ==
    {Block(<<b>>, rs, <<>>) : b \in BadRecords, rs \in {<<>>, <<SetFactR>>}}
    \cup {Block(<<FailI>>, <<b>>, <<>>) : b \in BadRecords}
    \cup {Block(<<FailI>>, <<SetFactR>>, <<b>>) : b \in BadRecords}
    \cup {Block(<<Block(<<FailI>>, <<SetFactR, b>>, <<>>)>>, <<SetFactR>>, <<>>) :
              b \in BadRecords}

\* programs that fail parsing, the record at fault first or after records
\* that parse
BadPrograms ==
    {<<b>> : b \in BadRecords \cup BadBlocks}
    \cup {<<i, b>> : i \in {CreateG1, SetFactR}, b \in BadRecords \cup BadBlocks}

(***************************************************************************)
(* The run of the plugin.                                                  *)
(***************************************************************************)
Init ==
    /\ \/ source \in Programs /\ strictness = "host"
       \/ source \in FullPrograms /\ strictness = "full"
       \/ source \in BadPrograms /\ strictness \in {"host", "full"}
    /\ pc = "parse"
    /\ instructions = EmptyDict
    /\ inventory = InitInventory
    /\ hostIdx = 0
    /\ available_variables = 0
    /\ discarded = EmptyDict
    /\ stack = <<>>
    /\ sig = NoSig
    /\ log = <<>>
    /\ variables = NewVariableStorage(EmptyDict)
    /\ vsOp = NoOp
    /\ vsBefore = NewVariableStorage(EmptyDict)

Next ==
    \/ Parse
    \/ StartHost
    \/ ExecCall
    \/ ExecNext
    \/ ExecReturn
    \/ HostError
    \/ HostCrash
    \/ Finish
    \/ RunForEnter
    \/ RunForBody
    \/ RunForLoop
    \/ RunForResume
    \/ RunForExit
    \/ BlockCall
    \/ BlockNext
    \/ BlockRescue
    \/ BlockFinally
    \/ BlockExit

Spec == Init /\ [][Next]_vars

(***************************************************************************)
(* parse_instruction on single records: one record of each action, alone   *)
(* and with one more field of every name, each field with a value of the   *)
(* type its parser accepts.                                                *)
(***************************************************************************)
FieldNames ==
    {"when", "loop", "loop_var", "run_once", "vars", "group", "parent",
     "add_host", "child", "name", "value", "msg", "block", "rescue", "always",
     "locals", "bogus"}

\* a record of the action with its required fields
BaseRecord(action) ==
    CASE action = "add_child" ->
            [action |-> "add_child", group |-> Str("g1"), child |-> Str("g2")]
      [] action = "add_host" -> AddHostG1
      [] action = "block" -> [action |-> "block", block |-> <<SetVarX>>]
      [] action = "create_group" -> CreateG1
      [] action = "fail" -> FailI
      [] action = "set_fact" -> SetFactR
      [] action = "set_var" -> SetVarX
      [] action = "stop" -> StopI

\* the field f with a value its parser accepts (loop_var comes with a loop)
Fragment(f) ==
    CASE f = "when" -> WhenFlag
      [] f = "loop" -> LoopAB
      [] f = "loop_var" -> LoopX
      [] f = "run_once" -> RunOnce
      [] f = "vars" -> VarsX
      [] f = "group" -> [group |-> Str("g1")]
      [] f = "parent" -> [parent |-> Str("g2")]
      [] f = "add_host" -> [add_host |-> Bool(TRUE)]
      [] f = "child" -> [child |-> Str("g2")]
      [] f = "name" -> [name |-> Str("x")]
      [] f = "value" -> [value |-> Str("1")]
      [] f = "msg" -> [msg |-> Str("m")]
      [] f = "block" -> [block |-> <<SetVarX>>]
      [] f = "rescue" -> [rescue |-> <<SetFactR>>]
      [] f = "always" -> [always |-> <<SetVarY>>]
      [] f = "locals" -> [locals |-> LocalsTable]
      [] f = "bogus" -> [bogus |-> Str("1")]

FieldRecords ==
    {BaseRecord(a) : a \in INSTRUCTIONS}
    \cup {BaseRecord(a) @@ Fragment(f) : a \in INSTRUCTIONS, f \in FieldNames}

InitParse ==
    /\ source \in {<<r>> : r \in FieldRecords}
    /\ strictness = "host"
    /\ pc = "parse"
    /\ instructions = EmptyDict
    /\ inventory = InitInventory
    /\ hostIdx = 0
    /\ available_variables = 0
    /\ discarded = EmptyDict
    /\ stack = <<>>
    /\ sig = NoSig
    /\ log = <<>>
    /\ variables = NewVariableStorage(EmptyDict)
    /\ vsOp = NoOp
    /\ vsBefore = NewVariableStorage(EmptyDict)

NextParse == Parse

SpecParse == InitParse /\ [][NextParse]_vars

(***************************************************************************)
(* Properties.                                                             *)
(***************************************************************************)
\* the events of the log: "enter" and "skip" are the two ways a call of
\* run_for begins, "exit" is the end of a call that got past the run-once check
Events == 1..Len(log)
IsCall(i) == log[i].e \in {"enter", "skip"}

\* the load is over: the log, which only grows, holds every event of the run
RunOver == pc \in {"done", "aborted"}

\* C1: every call of run_for that gets past the run-once check leaves each
\* name of the save set with the script-local binding it had on entry, absent
\* if it was absent and of the same value otherwise, however the call ends.
C1_SaveSetRestored ==
    \A i \in Events : log[i].e = "exit" => log[i].d.exit = log[i].d.entry

\* a call of an instruction with a loop and vars ends on an error, after an
\* iteration bound the loop variable and changed the value of a local that was
\* bound on entry; another name of the save set had no binding on entry
C1_Witness ==
    \E i \in Events :
        /\ log[i].e = "exit"
        /\ IsError(log[i].d.res)
        /\ instructions[log[i].path].loop # None
        /\ \E n \in log[i].d.save : n \in DOMAIN log[i].d.entry
        /\ \E n \in log[i].d.save : n \notin DOMAIN log[i].d.entry
        /\ \E j \in 1..(i - 1) :
              /\ log[j].e = "locals" /\ log[j].path = log[i].path
              /\ log[j].host = log[i].host
              /\ \E n \in DOMAIN log[j].d.bound :
                    /\ n \in DOMAIN log[i].d.entry
                    /\ log[j].d.bound[n] # log[i].d.entry[n]

\* the call j is the first call of the instruction of the call i after i
Consecutive(i, j) ==
    /\ i < j /\ IsCall(i) /\ IsCall(j)
    /\ log[i].path = log[j].path
    /\ \A k \in (i + 1)..(j - 1) : ~(IsCall(k) /\ log[k].path = log[i].path)

\* the events e that the call i logged for its own instruction
EventsOfCall(i, e) ==
    {k \in Events :
        /\ k > i /\ log[k].e = e /\ log[k].path = log[i].path
        /\ \A c \in (i + 1)..k : ~(IsCall(c) /\ log[c].path = log[i].path)}

RunOnceCalls == {i \in Events : IsCall(i) /\ instructions[log[i].path].executed_once # None}

\* a call of a run_once instruction that has fired is about to be answered
AboutToSkip ==
    /\ pc = "run" /\ stack # <<>> /\ Top.k = "run_for" /\ Top.st = "enter"
    /\ instructions[Top.path].executed_once = Bool(TRUE)

\* of two consecutive calls of a run_once instruction the second is skipped, and
\* a call executes the action at most once per item of its loop, at most once
\* without a loop
C4_OncePerItem ==
    \A i \in RunOnceCalls :
        /\ \A j \in Events : Consecutive(i, j) => log[j].e = "skip"
        /\ IF instructions[log[i].path].loop = None
           THEN Cardinality(EventsOfCall(i, "action")) <= 1
           ELSE \/ EventsOfCall(i, "action") = {}
                \/ \E k \in EventsOfCall(i, "loop") :
                      Cardinality(EventsOfCall(i, "action")) <= Len(log[k].d.items)

\* the skipped call returns True and touches nothing: no push or pop, no
\* evaluation of vars, condition or loop, no change of a variable, of the
\* inventory or of an instruction
C4_SkipStep ==
    AboutToSkip =>
        /\ sig' = Ret(TRUE)
        /\ stack' = Pop(stack)
        /\ log' = Append(log, Ev("skip", Top.path, [ret |-> Ret(TRUE)]))
        /\ UNCHANGED <<variables, inventory, instructions, available_variables,
                       discarded, pc, hostIdx>>

\* C4 (amended): for every instruction parsed with run_once: true, of two
\* consecutive run_for calls only the first gets past the run-once check: the
\* action is executed at most once when the instruction has no loop and at most
\* once per loop item when it has one, and the second call returns True without
\* side effects (no push or pop of the save stack, no evaluation of vars,
\* condition or loop, no variable changed, no mutation of the Inventory).
C4_RunOnceTwice == [](C4_OncePerItem) /\ [][C4_SkipStep]_vars

\* C4 (as stated): two consecutive run_for calls of a run_once instruction
\* execute the action at most once.
C4_ActionAtMostOnce ==
    \A i \in RunOnceCalls : \A j \in Events :
        Consecutive(i, j) =>
            Cardinality(EventsOfCall(i, "action") \cup EventsOfCall(j, "action")) <= 1

\* a run_once instruction with a loop was called twice in a row for one host:
\* the first call executed the action for several items, the second was skipped
C4_Witness ==
    \E i \in RunOnceCalls : \E j \in Events :
        /\ Consecutive(i, j)
        /\ log[i].host = log[j].host
        /\ log[i].e = "enter" /\ log[j].e = "skip"
        /\ Cardinality(EventsOfCall(i, "action")) > 1
        /\ sig = Ret(TRUE) /\ log[Len(log)].e = "skip"

\* C5: over all the hosts of a run, at most one call of a run_once instruction
\* gets past the run-once check; every call that comes after it, for the same
\* host or for a later one, is skipped and returns True.
C5_FiresOnceOverHosts ==
    \A i \in RunOnceCalls :
        log[i].e = "enter" =>
            \A j \in Events :
                (j > i /\ IsCall(j) /\ log[j].path = log[i].path) =>
                    /\ log[j].e = "skip"
                    /\ log[j].d.ret = Ret(TRUE)

\* a run_once instruction fired for the first host and was skipped for the
\* second, whose run went on to its end
C5_Witness ==
    \E i \in RunOnceCalls : \E j \in Events :
        /\ log[i].e = "enter" /\ log[i].host = 1
        /\ log[j].e = "skip" /\ log[j].host = 2 /\ log[j].path = log[i].path
        /\ \E k \in EventsOfCall(i, "action") : TRUE
        /\ log[Len(log)].e = "host_end" /\ log[Len(log)].host = 2

\* the events where a stop action was executed
StopsExecuted ==
    {k \in Events : log[k].e = "result" /\ instructions[log[k].path].action = "stop"}

\* the top-level instruction j is called for the host of k, after k
RunsLaterTopLevel(k, j) ==
    /\ j > k /\ IsCall(j) /\ log[j].host = log[k].host
    /\ Len(log[j].path) = 1 /\ log[j].path[1] > log[k].path[1]

\* C6: once a stop action is executed for a host, at any nesting depth and in
\* any section of a block, no top-level instruction after the one that holds
\* the stop is run for that host.
C6_StopEndsHost ==
    \A k \in StopsExecuted : \A j \in Events : ~RunsLaterTopLevel(k, j)

\* a stop was executed in the always section of a top-level block and the next
\* top-level instruction was run for the same host all the same
C6_Witness ==
    \E k \in StopsExecuted : \E j \in Events :
        /\ Len(log[k].path) = 3 /\ log[k].path[2] = SectionNo("always")
        /\ RunsLaterTopLevel(k, j)
        /\ log[j].e = "enter"
        /\ \E r \in EventsOfCall(j, "result") : log[r].d.sig = Ret(TRUE)

\* the path q is that of an instruction nested, at any depth, in the block at p
IsUnder(q, p) == Len(q) > Len(p) /\ SubSeq(q, 1, Len(p)) = p

\* the events where execute_action of a block begins
BlockStarts ==
    {k \in Events : log[k].e = "section" /\ log[k].d.sec = "block"}

\* the event where the execution of the block begun at k ends, the end of the
\* log while it has not ended
BlockEnd(k) ==
    LET exits == {x \in Events : x > k /\ log[x].e = "block_exit"
                                  /\ log[x].path = log[k].path}
    IN IF exits = {} THEN Len(log) + 1
       ELSE CHOOSE x \in exits : \A y \in exits : x <= y

\* the events where the always section of the block begun at k begins
AlwaysStarts(k) ==
    {a \in k..BlockEnd(k) : /\ a \in Events
                            /\ log[a].e = "section" /\ log[a].d.sec = "always"
                            /\ log[a].path = log[k].path}

\* the events of the instructions nested in the block begun at k
NestedEvents(k) ==
    {j \in k..BlockEnd(k) : j \in Events /\ IsUnder(log[j].path, log[k].path)}

\* C7: every execution of a block runs its always section exactly once, after
\* the block section and the rescue section are over, however they ended: in a
\* run that is over, every execution of a block has ended and has begun its
\* always section once, the instructions of block and rescue all come before
\* that, those of always after it.
C7_AlwaysRunsOnce ==
    RunOver =>
        \A k \in BlockStarts :
            /\ BlockEnd(k) \in Events
            /\ Cardinality(AlwaysStarts(k)) = 1
            /\ \A a \in AlwaysStarts(k) : \A j \in NestedEvents(k) :
                  (log[j].path[Len(log[k].path) + 1] = SectionNo("always"))
                      <=> (j > a)

\* a block whose block section raised and whose rescue section raised in turn
\* ran an instruction of its always section, then let the error out
C7_Witness ==
    \E k \in BlockStarts :
        /\ BlockEnd(k) \in Events
        /\ IsError(log[BlockEnd(k)].d.out)
        /\ \E r \in k..BlockEnd(k) :
              log[r].e = "rescued" /\ log[r].path = log[k].path
        /\ \E a \in AlwaysStarts(k) : \E j \in NestedEvents(k) :
              j > a /\ log[j].e = "result"

\* the path of the block that holds the instruction at the path q
Parent(q) == SubSeq(q, 1, Len(q) - 2)
SectionOf(q) == q[Len(q) - 1]

\* the event where the execution of a block that the event c is part of began
BlockStartOf(c, p) ==
    LET starts == {k \in BlockStarts : k < c /\ log[k].path = p}
    IN CHOOSE k \in starts : \A y \in starts : y <= k

\* the events where an instruction of the block section of a block that has a
\* rescue section raised an AnsibleError
RescuableErrors ==
    {c \in Events :
        /\ log[c].e = "exit" /\ log[c].d.res.k = "AnsibleError"
        /\ Len(log[c].path) >= 3
        /\ SectionOf(log[c].path) = SectionNo("block")
        /\ instructions[Parent(log[c].path)].rescue # <<>>}

\* the events of the block at p logged after c in the same execution
BlockEventsAfter(c, p) ==
    {j \in (c + 1)..BlockEnd(BlockStartOf(c, p)) : j \in Events /\ log[j].path = p}

\* the calls of the instructions of the section sec of the block at p made
\* after c in the same execution
SectionCallsAfter(c, p, sec) ==
    {j \in (c + 1)..BlockEnd(BlockStartOf(c, p)) :
        /\ j \in Events /\ IsCall(j)
        /\ Len(log[j].path) = Len(p) + 2 /\ Parent(log[j].path) = p
        /\ SectionOf(log[j].path) = SectionNo(sec)}

\* C8: when an instruction of the block section raises a runtime error and the
\* rescue list is not empty, the rest of the block section is not run,
\* reconstructed_error is bound to the message of the error before the first
\* rescue instruction runs, the rescue instructions run in order, and the block
\* returns what the rescue section returned if neither rescue nor always raises.
\* Stated on the events of a run that is over.
C8_RescueRuns ==
    RunOver => \A c \in RescuableErrors :
        LET p == Parent(log[c].path)
            rescue == SectionCallsAfter(c, p, "rescue")
        IN /\ SectionCallsAfter(c, p, "block") = {}
           /\ rescue # {}
           /\ \E x \in BlockEventsAfter(c, p) : log[x].e = "block_exit"
           /\ \A j \in BlockEventsAfter(c, p) :
                 \E r \in BlockEventsAfter(c, p) :
                     /\ r <= j /\ log[r].e = "rescued"
                     /\ log[r].d.msg = log[c].d.res.msg
           /\ \A j \in rescue :
                 /\ \E r \in BlockEventsAfter(c, p) : r < j /\ log[r].e = "rescued"
                 /\ log[j].path[Len(log[j].path)]
                       = 1 + Cardinality({i \in rescue : i < j})
                 /\ (log[j].e = "enter" /\ \A i \in rescue : i >= j) =>
                       /\ "reconstructed_error" \in DOMAIN log[j].d.locals
                       /\ log[j].d.locals["reconstructed_error"]
                             = Str(log[c].d.res.msg)
           /\ \A x, e, a \in BlockEventsAfter(c, p) :
                 (/\ log[x].e = "block_exit"
                  /\ log[e].e = "section_end" /\ log[e].d.sec = "rescue"
                  /\ log[a].e = "section_end" /\ log[a].d.sec = "always"
                  /\ ~IsError(log[e].d.out)
                  /\ ~IsError(log[a].d.out))
                 => log[x].d.out = log[e].d.out

\* the first of two instructions of a block section raised; the two rescue
\* instructions ran and the block returned True
C8_Witness ==
    \E c \in RescuableErrors :
        LET p == Parent(log[c].path) IN
        /\ Len(instructions[p].block) > 1
        /\ Cardinality(SectionCallsAfter(c, p, "rescue")) = 2
        /\ \E x \in BlockEventsAfter(c, p) :
              log[x].e = "block_exit" /\ log[x].d.out = Ret(TRUE)

\* the events where an instruction of the block section of a block returned
\* False
BlockInterrupts ==
    {c \in Events :
        /\ log[c].e = "exit" /\ log[c].d.res = Ret(FALSE)
        /\ Len(log[c].path) >= 3
        /\ SectionOf(log[c].path) = SectionNo("block")}

\* after the interrupt c of its block section the block at p runs no rescue
\* instruction and ends once its always section has run (in a run that is over)
InterruptSkipsRescue(c, p) ==
    /\ SectionCallsAfter(c, p, "rescue") = {}
    /\ SectionCallsAfter(c, p, "block") = {}
    /\ \A j \in BlockEventsAfter(c, p) : log[j].e # "rescued"
    /\ \E x \in BlockEventsAfter(c, p) : log[x].e = "block_exit"
    /\ \A x \in BlockEventsAfter(c, p) :
          log[x].e = "block_exit" =>
              \E a \in AlwaysStarts(BlockStartOf(c, p)) : c < a /\ a < x

\* C9 (amended): when an instruction of the block section signals an interrupt,
\* the rescue section is not run even if it is not empty, the always section is
\* run, and the block returns the interrupt (False) to its caller unless the
\* always section raises an error, in which case that error propagates.
\* Stated on the events of a run that is over.
C9_InterruptThroughAlways ==
    RunOver => \A c \in BlockInterrupts :
        LET p == Parent(log[c].path) IN
        /\ InterruptSkipsRescue(c, p)
        /\ \A x, a \in BlockEventsAfter(c, p) :
              (/\ log[x].e = "block_exit"
               /\ log[a].e = "section_end" /\ log[a].d.sec = "always")
              => log[x].d.out =
                    IF IsError(log[a].d.out) THEN log[a].d.out ELSE Ret(FALSE)

\* C9 (as stated): when an instruction of the block section signals an
\* interrupt, the rescue section is not run, the always section is run and the
\* block returns False to its caller.
C9_InterruptReturnsFalse ==
    RunOver => \A c \in BlockInterrupts :
        LET p == Parent(log[c].path) IN
        /\ InterruptSkipsRescue(c, p)
        /\ \A x \in BlockEventsAfter(c, p) :
              log[x].e = "block_exit" => log[x].d.out = Ret(FALSE)

\* a stop in the block section of a block that has a rescue section: an
\* instruction of the always section ran and returned True, and the block
\* returned False
C9_Witness ==
    \E c \in BlockInterrupts :
        LET p == Parent(log[c].path) IN
        /\ instructions[log[c].path].action = "stop"
        /\ instructions[p].rescue # <<>>
        /\ \E j \in SectionCallsAfter(c, p, "always") :
              \E r \in EventsOfCall(j, "result") : log[r].d.sig = Ret(TRUE)
        /\ \E x \in BlockEventsAfter(c, p) :
              log[x].e = "block_exit" /\ log[x].d.out = Ret(FALSE)

\* the events where exec_for_host ended on an AnsibleError
HostErrors ==
    {e \in Events : log[e].e = "host_end" /\ log[e].d.out.k = "AnsibleError"}

\* the first call of run_for made for the host started at the event s
FirstCalls(s) ==
    {j \in Events :
        /\ j > s /\ IsCall(j) /\ log[j].host = log[s].host
        /\ \A i \in (s + 1)..(j - 1) : ~IsCall(i)}

\* C10: under strictness host, an uncaught runtime error raised for a host
\* ends the run of that host only: nothing more is run for it, the load goes on
\* (it is not aborted), and every later host is run, from the first instruction
\* of the program.
C10_HostErrorIsolated ==
    strictness = "host" =>
        /\ \A e \in HostErrors :
              /\ \A j \in Events : j > e => log[j].host # log[e].host
              /\ e = Len(log) =>
                    \/ pc = "hosts"
                    \/ pc = "done" /\ log[e].host = NHosts
        /\ (HostErrors # {} /\ pc = "done") =>
              \A h \in 1..NHosts :
                  \E s, x \in Events :
                      /\ log[s].e = "host_start" /\ log[s].host = h
                      /\ log[x].e = "host_end" /\ log[x].host = h
                      /\ FirstCalls(s) # {}
        /\ \A s \in Events :
              log[s].e = "host_start" =>
                  \A j \in FirstCalls(s) : log[j].path = <<1>>

\* under strictness host the first host failed on the first of two
\* instructions; the second host ran the program to its end
C10_Witness ==
    /\ strictness = "host"
    /\ pc = "done"
    /\ \E e \in HostErrors :
          /\ log[e].host = 1
          /\ log[e].d.at < Len(source)
          /\ \E x \in Events :
                /\ x > e /\ log[x].e = "host_end" /\ log[x].host = 2
                /\ log[x].d.out = Ret(TRUE)
                /\ log[x].d.at > Len(source)

\* C11: under strictness full, the first uncaught runtime error raised for a
\* host ends the whole run: the end of that host's run is the last event of the
\* run, parse is left by the error, and no host is started afterwards.
C11_FullAborts ==
    strictness = "full" =>
        \A e \in HostErrors :
            /\ e = Len(log)
            /\ pc = "aborted"
            /\ hostIdx = log[e].host
            /\ stack = <<>>

\* under strictness full the first of two instructions raised for the first
\* host: the second instruction was not run and no other host was started
C11_Witness ==
    /\ strictness = "full"
    /\ pc = "aborted"
    /\ NHosts > 1
    /\ \E e \in HostErrors :
          /\ log[e].host = 1
          /\ log[e].d.at < Len(source)
          /\ \A j \in Events : log[j].host = 1 /\ log[j].path # <<2>>

\* the load has failed on an exception raised while parsing
ParseFailed == pc \in {"parse_error", "parse_crash"}

\* C12: if any record of the program, at top level or nested in a section of
\* a block, fails parsing, the load fails before any instruction is executed
\* for any host: no host is started, nothing is run, the inventory is
\* unchanged, whatever the strictness; and a run that got to the hosts had
\* every record parsed.
C12_ParseErrorBeforeRun ==
    /\ ParseFailed =>
          /\ inventory = InitInventory
          /\ log = <<>>
          /\ hostIdx = 0
          /\ stack = <<>>
          /\ instructions = EmptyDict
    /\ (hostIdx > 0 \/ log # <<>> \/ inventory # InitInventory) =>
          /\ ~ParseFailed
          /\ \A i \in 1..Len(source) : <<i>> \in DOMAIN instructions

\* under strictness host the load failed on a record nested in the always
\* section of a block whose rescue section is not empty, after a create_group
\* that parses
C12_Witness ==
    /\ ParseFailed
    /\ strictness = "host"
    /\ Len(source) = 2
    /\ source[1] = CreateG1
    /\ "action" \in DOMAIN source[2]
    /\ source[2].action = "block"
    /\ source[2].rescue # <<>>
    /\ \E b \in BadRecords : source[2].always = <<b>>

\* the calls of run_for on a block that got past the run-once check
BlockCalls ==
    {i \in Events : log[i].e = "enter" /\ instructions[log[i].path].action = "block"}

\* C13: when a block instruction finishes executing (normally, by interrupt or
\* by error), every script-local variable defined by the instructions of its
\* sections is out of scope: the script-local bindings are those of the moment
\* the block started.
C13_BlockLocalsRestored ==
    RunOver =>
        \A i \in BlockCalls : \A x \in EventsOfCall(i, "exit") :
            log[x].d.locals = log[i].d.locals

\* a block whose block section ran a set_var has finished without error, and
\* the variable, which had no script-local binding when the block started, is
\* still bound
C13_Witness ==
    \E i \in BlockCalls : \E x \in EventsOfCall(i, "exit") :
        /\ log[x].d.res = Ret(TRUE)
        /\ "x" \notin DOMAIN log[i].d.locals
        /\ "x" \in DOMAIN log[x].d.locals
        /\ "reconstructed_error" \notin DOMAIN log[x].d.locals
        /\ \E k \in i..x : /\ log[k].e = "action"
                           /\ instructions[log[k].path].action = "set_var"
                           /\ IsUnder(log[k].path, log[i].path)

\* the program is about to run for a host: nothing has run since its start
HostStarting == log # <<>> /\ log[Len(log)].e = "host_start"

\* C14: script-local variables bound while the program runs for one host are
\* never visible while it runs for another: each host's run starts with an
\* empty script-local mapping, an empty save stack and a cache equal to that
\* host's facts, the first call of run_for for the host finds no script-local,
\* and every condition of the run is evaluated on the storage of its own host.
C14_FreshStoragePerHost ==
    /\ HostStarting =>
          /\ variables.script_vars = EmptyDict
          /\ variables.script_stack = <<>>
          /\ variables.cache = inventory.hostvars[HostName]
          /\ variables.host_vars = inventory.hostvars[HostName]
    /\ RunOver =>
          \A i \in Events :
              /\ log[i].e = "cond" => log[i].d.av = log[i].host
              /\ (log[i].e = "host_start" /\ i < Len(log) /\ log[i + 1].e = "enter")
                    => log[i + 1].d.locals = EmptyDict

\* the second host is starting after the run for the first host ended with a
\* script-local x bound, x being no fact of the second host
C14_Witness ==
    /\ HostStarting
    /\ hostIdx = 2
    /\ "x" \in DOMAIN discarded[1].script_vars
    /\ "x" \notin DOMAIN inventory.hostvars[HostName]

\* the evaluations of a loop source that gave a list
LoopsEvaluated == {k \in Events : log[k].e = "loop" /\ log[k].d.ok}

\* the call of run_for that the event k belongs to
CallOf(k) ==
    CHOOSE i \in Events :
        /\ i < k /\ log[i].e = "enter" /\ log[i].path = log[k].path
        /\ \A c \in (i + 1)..k : ~(IsCall(c) /\ log[c].path = log[k].path)

\* the iterations started by the call i before the event a, a included
IterationsUpTo(i, a) == {b \in EventsOfCall(i, "locals") : b <= a}

\* the loop evaluated at k: the iterations of its call are run in list order
\* with the loop variable bound to the item, an iteration that does not
\* return True is the last one and gives the outcome of run_for, and run_for
\* returns True after one iteration per item otherwise
LoopRunsInOrder(k, i, items, lv) ==
    /\ \A a \in EventsOfCall(i, "locals") :
          /\ Cardinality(IterationsUpTo(i, a)) <= Len(items)
          /\ log[a].d.item = (lv :> Str(items[Cardinality(IterationsUpTo(i, a))]))
          /\ \E o \in EventsOfCall(i, "iter") :
                o > a /\ \A b \in EventsOfCall(i, "locals") : b <= a \/ b > o
    /\ \A o \in EventsOfCall(i, "iter") :
          /\ Cardinality(IterationsUpTo(i, o)) =
                Cardinality({q \in EventsOfCall(i, "iter") : q <= o})
          /\ log[o].d.out # Ret(TRUE) =>
                /\ \A b \in EventsOfCall(i, "locals") \cup EventsOfCall(i, "iter") :
                      b <= o
                /\ \A x \in EventsOfCall(i, "exit") : log[x].d.res = log[o].d.out
    /\ EventsOfCall(i, "exit") # {}
    /\ (\A o \in EventsOfCall(i, "iter") : log[o].d.out = Ret(TRUE)) =>
          /\ Cardinality(EventsOfCall(i, "locals")) = Len(items)
          /\ \A x \in EventsOfCall(i, "exit") : log[x].d.res = Ret(TRUE)

\* C15: for an instruction with a loop whose source evaluates to the items
\* v1..vn, the iterations run in list order, loop_var is bound to vi as a
\* script-local before iteration i runs, as soon as an iteration returns False
\* no later item is bound or run and run_for returns False, and if no
\* iteration returns False run_for returns True after exactly n iterations.
C15_LoopInOrder ==
    RunOver =>
        \A k \in LoopsEvaluated :
            LoopRunsInOrder(k, CallOf(k), log[k].d.items,
                            instructions[log[k].path].loop_var.s)

\* a loop over at least two items: the first iteration returned True, the
\* second returned False, and run_for returned False
C15_Witness ==
    \E k \in LoopsEvaluated : \E x \in EventsOfCall(CallOf(k), "exit") :
        /\ Len(log[k].d.items) >= 2
        /\ log[x].d.res = Ret(FALSE)
        /\ Cardinality(EventsOfCall(CallOf(k), "locals")) = 2
        /\ \E o \in EventsOfCall(CallOf(k), "iter") : log[o].d.out = Ret(TRUE)

\* C16: for a key k present in the host facts, store[k] = v followed by
\* del store[k] makes store[k] equal to host_vars[k] again, k is no longer a
\* script-local, and host_vars[k] is changed by neither step.
C16_SetDelRestoresFact ==
    vsOp.op = "set_del" =>
        \A k \in vsOp.names \cap DOMAIN vsOp.facts :
            /\ k \in DOMAIN variables.cache
            /\ GetItem(variables, k) = variables.host_vars[k]
            /\ k \notin DOMAIN variables.script_vars
            /\ k \in DOMAIN vsOp.mid
            /\ vsOp.mid[k] = vsOp.facts[k]
            /\ k \in DOMAIN variables.host_vars
            /\ variables.host_vars[k] = vsOp.facts[k]

\* a host fact was shadowed by a script-local of another value, which has
\* been deleted, while a save record is on the stack
C16_Witness ==
    /\ vsOp.op = "set_del"
    /\ vsOp.names \cap DOMAIN vsOp.facts # {}
    /\ vsOp.shadowed
    /\ variables.script_stack # <<>>

\* C17: parse_instruction either returns an instruction or fails with a
\* schema error (AnsibleParserError), and with no other kind of failure: once
\* the program has been read, either every record has its instruction or the
\* load has failed on a schema error; a record without action and a record
\* with an unknown action both fail with a schema error.
C17_OnlySchemaErrors ==
    /\ pc # "parse" =>
          \/ pc = "parse_error"
          \/ \A i \in 1..Len(source) : <<i>> \in DOMAIN instructions
    /\ (pc # "parse" /\ source[1] \in {NoAction, UnknownAction}) =>
          pc = "parse_error"

\* the only record of the program has no action field, and the load has
\* failed on an exception that is not a schema error
C17_Witness ==
    /\ source = <<NoAction>>
    /\ pc = "parse_crash"
    /\ instructions = EmptyDict

\* the fields of each action as the statement lists them
ListedOwnFields(action) ==
    CASE action = "create_group" -> {"group", "parent", "add_host"}
      [] action = "add_host" -> {"group"}
      [] action = "add_child" -> {"group", "child"}
      [] action \in {"set_fact", "set_var"} -> {"name", "value"}
      [] action = "fail" -> {"msg"}
      [] action = "stop" -> {}
      [] action = "block" -> {"block", "rescue", "always"}
ListedFields(action) ==
    {"action", "when", "loop", "loop_var", "run_once", "vars"}
        \cup ListedOwnFields(action)

\* the record has been parsed and rejected with a schema error
Rejected == pc = "parse_error"
\* the record has been parsed and an instruction built
Accepted == pc = "hosts" /\ <<1>> \in DOMAIN instructions

TableNames(table) == {table.l[i][1] : i \in 1..Len(table.l)}

\* a section of the top-level block of the program is being run
InTopBlock ==
    /\ pc = "run" /\ stack # <<>> /\ Top.k = "block" /\ Len(Top.path) = 1

\* C19: a block record whose locals field is not a table fails parsing, and
\* the variables of a locals table are script-locals while the sections of
\* the block run.
C19_LocalsDefined ==
    /\ (pc # "parse" /\ "locals" \in DOMAIN source[1]
            /\ source[1].locals.t # "dict") => pc = "parse_error"
    /\ (InTopBlock /\ "locals" \in DOMAIN source[Top.path[1]]
            /\ source[Top.path[1]].locals.t = "dict") =>
          TableNames(source[Top.path[1]].locals)
              \subseteq DOMAIN variables.script_vars

\* the block section of a block whose locals table defines x is being run
\* for a host, and x is no script-local
C19_Witness ==
    /\ InTopBlock
    /\ Top.sec = "block"
    /\ "locals" \in DOMAIN source[1]
    /\ source[1].locals = LocalsTable
    /\ "x" \notin DOMAIN variables.script_vars

\* the step executes a set_fact for the current host
SetFactStep ==
    \E k \in (Len(log) + 1)..Len(log') :
        /\ log'[k].e = "action"
        /\ log'[k].d.action = "set_fact"
        /\ log'[k].host = hostIdx

\* no step of the interpreter removes a group, a parent/child or host
\* membership, or a fact; the value of a fact changes only when a set_fact is
\* executed for its host
InventoryKept ==
    /\ inventory.groups \subseteq inventory'.groups
    /\ inventory.children \subseteq inventory'.children
    /\ DOMAIN inventory.hostvars = DOMAIN inventory'.hostvars
    /\ \A h \in DOMAIN inventory.hostvars :
          /\ DOMAIN inventory.hostvars[h] \subseteq DOMAIN inventory'.hostvars[h]
          /\ \A n \in DOMAIN inventory.hostvars[h] :
                \/ inventory'.hostvars[h][n] = inventory.hostvars[h][n]
                \/ SetFactStep /\ h = HostName

\* create_group g1 then add_host g1 have run for a host without error
GroupedHosts ==
    {log[a].host : a \in
        {a \in Events :
            /\ log[a].e = "result" /\ log[a].d.sig = Ret(TRUE)
            /\ instructions[log[a].path].action = "add_host"
            /\ \E c \in 1..a :
                  /\ log[c].e = "result" /\ log[c].d.sig = Ret(TRUE)
                  /\ log[c].host = log[a].host
                  /\ instructions[log[c].path].action = "create_group"}}

\* C20: inventory mutations are never undone by the interpreter: a group, a
\* membership or a fact applied by create_group, add_child, add_host or
\* set_fact is in the Inventory at every later point of the run, whatever
\* fails afterwards and whatever the strictness; after create_group g1 then
\* add_host g1 have run for a host without error, g1 exists with the host as
\* a member.
C20_MutationsKept ==
    /\ [][InventoryKept]_vars
    /\ [](\A h \in GroupedHosts :
             /\ "g1" \in inventory.groups
             /\ <<"g1", AllHosts[h]>> \in inventory.children)

\* under strictness full the run has been ended by the fail that follows
\* create_group and add_host for the first host: the group, the membership
\* are in the Inventory
C20_Witness ==
    /\ strictness = "full"
    /\ pc = "aborted"
    /\ source = <<CreateG1, AddHostG1, FailI>>
    /\ 1 \in GroupedHosts
    /\ <<"g1", "h1">> \in inventory.children

\* the events the step adds to the log
NewEvents == (Len(log) + 1)..Len(log')

\* the step runs an iteration of the instruction at the event k of the new
\* log, a set_var or set_fact that returns True
SetStep(k, action) ==
    /\ k \in NewEvents
    /\ log'[k].e = "result"
    /\ log'[k].d.sig = Ret(TRUE)
    /\ instructions[log'[k].path].action = action

\* the script-locals once the loop variable and the vars of the iteration
\* that the step runs have been assigned
LocalsOfStep(k) ==
    LET l == CHOOSE e \in NewEvents :
                 log'[e].e = "locals" /\ log'[e].path = log'[k].path
    IN log'[l].d.bound @@ log'[l].d.item @@ variables.script_vars

\* C21: a successful set_var of name n changes only the script-local layer:
\* the Inventory and the host-fact mapping are unchanged and no other
\* script-local changes.  A successful set_fact of name n sets n on the
\* current host in the Inventory and in the host-fact mapping of the storage,
\* to the same value, changes no other fact and no other host, and leaves the
\* script-local mapping unchanged.
C21_SetVarSetFactFrame ==
    [][\A k \in NewEvents :
          /\ SetStep(k, "set_var") =>
                /\ inventory' = inventory
                /\ variables'.host_vars = variables.host_vars
                /\ instructions[log'[k].path].var_name.s
                      \in DOMAIN variables'.script_vars
                /\ \A n \in (DOMAIN variables'.script_vars
                                \cup DOMAIN LocalsOfStep(k))
                            \ {instructions[log'[k].path].var_name.s} :
                      /\ n \in DOMAIN variables'.script_vars
                      /\ n \in DOMAIN LocalsOfStep(k)
                      /\ variables'.script_vars[n] = LocalsOfStep(k)[n]
          /\ SetStep(k, "set_fact") =>
                /\ variables'.script_vars = LocalsOfStep(k)
                /\ instructions[log'[k].path].var_name.s
                      \in DOMAIN inventory'.hostvars[HostName]
                /\ instructions[log'[k].path].var_name.s
                      \in DOMAIN variables'.host_vars
                /\ variables'.host_vars[instructions[log'[k].path].var_name.s]
                      = inventory'.hostvars[HostName]
                                          [instructions[log'[k].path].var_name.s]
                /\ inventory'.groups = inventory.groups
                /\ inventory'.children = inventory.children
                /\ \A h \in DOMAIN inventory.hostvars : h # HostName =>
                      inventory'.hostvars[h] = inventory.hostvars[h]
                /\ \A n \in DOMAIN inventory'.hostvars[HostName]
                            \ {instructions[log'[k].path].var_name.s} :
                      /\ n \in DOMAIN inventory.hostvars[HostName]
                      /\ inventory'.hostvars[HostName][n]
                            = inventory.hostvars[HostName][n]
                /\ \A n \in DOMAIN variables'.host_vars
                            \ {instructions[log'[k].path].var_name.s} :
                      /\ n \in DOMAIN variables.host_vars
                      /\ variables'.host_vars[n] = variables.host_vars[n]
      ]_vars

\* a set_var of x then a set_fact of r have returned True for a host: x is a
\* script-local and no fact of the Inventory, r is a fact of the host in the
\* Inventory and in the storage and no script-local
C21_Witness ==
    /\ pc = "run"
    /\ source = <<SetVarX, SetFactR>>
    /\ log # <<>>
    /\ log[Len(log)].e = "iter"
    /\ log[Len(log)].path = <<2>>
    /\ log[Len(log)].d.out = Ret(TRUE)
    /\ hostIdx = 2
    /\ "x" \in DOMAIN variables.script_vars
    /\ "x" \notin DOMAIN inventory.hostvars[HostName]
    /\ "x" \notin DOMAIN variables.host_vars
    /\ "r" \in DOMAIN inventory.hostvars[HostName]
    /\ "r" \in DOMAIN variables.host_vars
    /\ "r" \notin DOMAIN variables.script_vars

\* the calls of run_for, past the run-once check, on an instruction with
\* neither loop nor condition
PlainCalls ==
    {i \in Events : /\ log[i].e = "enter"
                    /\ instructions[log[i].path].loop = None
                    /\ instructions[log[i].path].condition = None}

\* what the action executed by the call i returned or raised: the result of
\* execute_action, that of a block being the outcome of the block
ActionOutcomes(i) ==
    {log[r].d.sig : r \in EventsOfCall(i, "result")}
        \cup {log[b].d.out : b \in EventsOfCall(i, "block_exit")}

\* the call i executes its action exactly once and ends on what it gave
RunsActionOnce(i) ==
    /\ Cardinality(EventsOfCall(i, "action")) = 1
    /\ Cardinality(ActionOutcomes(i)) = 1
    /\ EventsOfCall(i, "exit") # {}
    /\ \A x \in EventsOfCall(i, "exit") : ActionOutcomes(i) = {log[x].d.res}

\* the vars of the call i were all evaluated
LocalsComputed(i) == \A l \in EventsOfCall(i, "locals") : log[l].d.ok

\* C22 as stated: for an instruction with no loop and no condition, run_for
\* executes the action exactly once and returns what it returns or raises
\* what it raises.
C22_PlainRunsActionOnce ==
    RunOver => \A i \in PlainCalls : RunsActionOnce(i)

\* C22: the same when the vars of the instruction are evaluated without
\* error; when one of them raises, the single iteration ends there: the
\* action is not executed and run_for raises that error.
C22_PlainIsOneIteration ==
    RunOver =>
        \A i \in PlainCalls :
            /\ Cardinality(EventsOfCall(i, "locals")) = 1
            /\ Cardinality(EventsOfCall(i, "iter")) = 1
            /\ EventsOfCall(i, "cond") = {} \/ LocalsComputed(i)
            /\ LocalsComputed(i) => RunsActionOnce(i)
            /\ ~LocalsComputed(i) =>
                  /\ EventsOfCall(i, "action") = {}
                  /\ EventsOfCall(i, "exit") # {}
                  /\ \A x \in EventsOfCall(i, "exit") : IsError(log[x].d.res)
                  /\ \A x \in EventsOfCall(i, "exit"), o \in EventsOfCall(i, "iter") :
                        log[x].d.res = log[o].d.out

\* a fail with vars and neither loop nor condition was executed once and
\* run_for raised its error
C22_Witness ==
    \E i \in PlainCalls : \E x \in EventsOfCall(i, "exit") :
        /\ instructions[log[i].path].action = "fail"
        /\ instructions[log[i].path].vars # <<>>
        /\ LocalsComputed(i)
        /\ RunsActionOnce(i)
        /\ log[x].d.res.k = "AnsibleError"

\* the calls of a run_once instruction that got past the run-once check and
\* ended on an error
FailedOnceCalls ==
    {i \in RunOnceCalls :
        /\ log[i].e = "enter"
        /\ \E x \in EventsOfCall(i, "exit") : IsError(log[x].d.res)}

\* what is logged for the instruction at p, or for one nested in it, after x
LaterEvents(p, x) ==
    {k \in Events : k > x /\ (log[k].path = p \/ IsUnder(log[k].path, p))}

\* C23: when the first call of run_for on a run_once instruction ends on an
\* error, raised by the vars, the condition, the loop source or the action, the
\* instruction is marked as executed all the same: every later call, for this
\* host or another, is answered True at the run-once check, and nothing of the
\* instruction or of what is nested in it is executed again.
C23_FailedFirstCallMarks ==
    RunOver =>
        \A i \in FailedOnceCalls :
            /\ instructions[log[i].path].executed_once = Bool(TRUE)
            /\ \A x \in EventsOfCall(i, "exit") :
                  \A k \in LaterEvents(log[i].path, x) :
                      /\ log[k].path = log[i].path
                      /\ log[k].e = "skip"
                      /\ log[k].d.ret = Ret(TRUE)

\* the loop source of a run_once instruction could not be evaluated for the
\* first host, whose run ended on the error; the call made for the second host
\* was skipped and its run ended normally
C23_Witness ==
    /\ RunOver
    /\ \E i \in FailedOnceCalls :
          /\ log[i].host = 1
          /\ \E l \in EventsOfCall(i, "loop") : ~log[l].d.ok
          /\ \E k \in Events :
                /\ log[k].e = "skip" /\ log[k].path = log[i].path
                /\ log[k].host = 2
          /\ log[Len(log)].e = "host_end" /\ log[Len(log)].d.out = Ret(TRUE)

\* the ends of the executions of a block whose always section raised a
\* runtime error
AlwaysErrors ==
    {x \in Events :
        /\ log[x].e = "block_exit"
        /\ log[x - 1].e = "section_end" /\ log[x - 1].path = log[x].path
        /\ log[x - 1].d.sec = "always"
        /\ log[x - 1].d.out.k = "AnsibleError"}

\* C24: when an instruction of the always section raises a runtime error,
\* execute_action raises that error whatever block or rescue gave before, a
\* True, an interrupt or an error of their own, and so does the iteration of
\* the block instruction and the call of run_for it is part of.
C24_AlwaysErrorWins ==
    RunOver =>
        \A x \in AlwaysErrors :
            /\ log[x].d.out = log[x - 1].d.out
            /\ log[x + 1].e = "iter" /\ log[x + 1].path = log[x].path
            /\ log[x + 1].d.out = log[x - 1].d.out
            /\ \A e \in EventsOfCall(CallOf(x), "exit") :
                  e > x => log[e].d.res = log[x - 1].d.out

\* the block section raised, there was no rescue, the always section raised an
\* error of its own with another message, and that one came out of the call
C24_Witness ==
    /\ RunOver
    /\ \E x \in AlwaysErrors :
          /\ log[x].d.pend.k = "AnsibleError"
          /\ log[x].d.pend # log[x - 1].d.out
          /\ \E e \in EventsOfCall(CallOf(x), "exit") :
                e > x /\ log[e].d.res = log[x - 1].d.out

\* the events where an instruction of the block section of a block that has
\* no rescue instruction raised an AnsibleError
UnrescuedErrors ==
    {c \in Events :
        /\ log[c].e = "exit" /\ log[c].d.res.k = "AnsibleError"
        /\ Len(log[c].path) >= 3
        /\ SectionOf(log[c].path) = SectionNo("block")
        /\ instructions[Parent(log[c].path)].rescue = <<>>}

\* the events of the block at p, after c, of the kind e about the section sec
SectionEventsAfter(c, p, e, sec) ==
    {a \in BlockEventsAfter(c, p) : log[a].e = e /\ log[a].d.sec = sec}

\* C25: when the rescue list of a block is empty or absent and an instruction
\* of its block section raises a runtime error, no further instruction of the
\* block section is run and nothing is rescued, the always section is run
\* once, and the error comes out of execute_action and of the iteration of the
\* block instruction unless the always section raised.
C25_UnrescuedErrorPropagates ==
    RunOver => \A c \in UnrescuedErrors :
        LET p == Parent(log[c].path) IN
        /\ SectionCallsAfter(c, p, "block") = {}
        /\ SectionCallsAfter(c, p, "rescue") = {}
        /\ \A j \in BlockEventsAfter(c, p) : log[j].e # "rescued"
        /\ Cardinality(SectionEventsAfter(c, p, "section", "always")) = 1
        /\ Cardinality(SectionEventsAfter(c, p, "section_end", "always")) = 1
        /\ \E x \in BlockEventsAfter(c, p) : log[x].e = "block_exit"
        /\ \A x \in BlockEventsAfter(c, p) :
              (/\ log[x].e = "block_exit"
               /\ \A a \in SectionEventsAfter(c, p, "section_end", "always") :
                     ~IsError(log[a].d.out))
              => /\ log[x].d.out = log[c].d.res
                 /\ log[x + 1].e = "iter" /\ log[x + 1].path = p
                 /\ log[x + 1].d.out = log[c].d.res

\* the first of the two instructions of the block section of a block without
\* a rescue field raised; the instruction of the always section ran and the
\* error came out of the block
C25_Witness ==
    /\ RunOver
    /\ Len(source) = 1 /\ "rescue" \notin DOMAIN source[1]
    /\ \E c \in UnrescuedErrors :
          LET p == Parent(log[c].path) IN
          /\ p = <<1>> /\ Len(instructions[p].block) = 2
          /\ \E j \in SectionCallsAfter(c, p, "always") :
                \E r \in EventsOfCall(j, "result") : log[r].d.sig = Ret(TRUE)
          /\ \E x \in BlockEventsAfter(c, p) :
                log[x].e = "block_exit" /\ log[x].d.out = log[c].d.res

\* the events where an instruction of the rescue section of a block raised an
\* AnsibleError
RescueErrors ==
    {c \in Events :
        /\ log[c].e = "exit" /\ log[c].d.res.k = "AnsibleError"
        /\ Len(log[c].path) >= 3
        /\ SectionOf(log[c].path) = SectionNo("rescue")}

\* C26: a runtime error raised by an instruction of the rescue section is not
\* caught by the block it belongs to: no further rescue instruction is run,
\* nothing is rescued a second time, the always section is run once, and the
\* error of the rescue section comes out of execute_action and of the
\* iteration of the block instruction unless the always section raised.
C26_RescueErrorPropagates ==
    RunOver => \A c \in RescueErrors :
        LET p == Parent(log[c].path) IN
        /\ SectionCallsAfter(c, p, "rescue") = {}
        /\ SectionCallsAfter(c, p, "block") = {}
        /\ \A j \in BlockEventsAfter(c, p) :
              log[j].e # "rescued" /\ ~(log[j].e = "section" /\ log[j].d.sec = "rescue")
        /\ Cardinality(SectionEventsAfter(c, p, "section", "always")) = 1
        /\ Cardinality(SectionEventsAfter(c, p, "section_end", "always")) = 1
        /\ \E x \in BlockEventsAfter(c, p) : log[x].e = "block_exit"
        /\ \A x \in BlockEventsAfter(c, p) :
              (/\ log[x].e = "block_exit"
               /\ \A a \in SectionEventsAfter(c, p, "section_end", "always") :
                     ~IsError(log[a].d.out))
              => /\ log[x].d.out = log[c].d.res
                 /\ log[x + 1].e = "iter" /\ log[x + 1].path = p
                 /\ log[x + 1].d.out = log[c].d.res

\* the first instruction of the block section raised and was rescued, the
\* first of the two rescue instructions raised in its turn; the second was not
\* run, the always section ran its instruction and the error of the rescue
\* section came out of the block
C26_Witness ==
    /\ RunOver
    /\ \E c \in RescueErrors :
          LET p == Parent(log[c].path) IN
          /\ Len(instructions[p].rescue) = 2
          /\ log[c].path = ChildPath(p, "rescue", 1)
          /\ \E r \in BlockStartOf(c, p)..c :
                log[r].e = "rescued" /\ log[r].path = p
          /\ \E j \in SectionCallsAfter(c, p, "always") : log[j].e = "enter"
          /\ \E x \in BlockEventsAfter(c, p) :
                /\ log[x].e = "block_exit" /\ log[x].d.out = log[c].d.res
                /\ \E r \in BlockStartOf(c, p)..c :
                      log[r].e = "rescued" /\ log[r].d.msg # log[c].d.res.msg

\* the storage after the entries i.. of vars have been evaluated and assigned
\* one after the other, each in the storage the entries before it left
RECURSIVE LocalsInOrder(_, _, _)
LocalsInOrder(vs, entries, i) ==
    IF i > Len(entries) THEN [ok |-> TRUE, vs |-> vs]
    ELSE IF IsError(template(Bound(hostIdx, vs), entries[i][2]).err)
    THEN [ok |-> FALSE, vs |-> vs]
    ELSE LocalsInOrder(
             SetItem(vs, entries[i][1], template(Bound(hostIdx, vs), entries[i][2]).v),
             entries, i + 1)

\* the storage an iteration of the instruction of the top frame begins with
IterationStart ==
    IF instructions[Top.path].loop = None THEN variables
    ELSE SetItem(variables, instructions[Top.path].loop_var.s, Str(Head(Top.items)))

\* what the condition gives in the storage vs
ConditionIn(instr, vs) ==
    evaluate_condition(instr, [vs |-> vs, inv |-> inventory, av |-> hostIdx])

\* the iteration whose events begin at k: loc is what the vars give in order,
\* cond what the condition gives after them
IterationAsOrdered(k, instr, loc, cond) ==
    /\ log'[k].path = Top.path
    /\ log'[k].d.ok = loc.ok
    /\ log'[k].d.bound
          = Bindings(loc.vs, {instr.vars[i][1] : i \in 1..Len(instr.vars)})
    /\ loc.ok =>
          /\ log'[k + 1].e = "cond"
          /\ log'[k + 1].d.ok = ~IsError(cond.err)
          /\ log'[k + 1].d.v = cond.v
    /\ (loc.ok /\ ~IsError(cond.err) /\ ~cond.v) =>
          /\ Len(log') = k + 2
          /\ log'[k + 2].e = "iter" /\ log'[k + 2].d.out = Ret(TRUE)
          /\ variables' = loc.vs
          /\ inventory' = inventory
          /\ instr.loop # None => stack'[Len(stack')].st = "loop"
    /\ (loc.ok /\ ~IsError(cond.err) /\ cond.v) =>
          /\ log'[k + 2].e = "action"
          /\ instr.action # "block" =>
                /\ Len(log') = k + 4
                /\ log'[k + 3].e = "result"
                /\ log'[k + 4].e = "iter"
                /\ log'[k + 4].d.out = log'[k + 3].d.sig

C27_IterationStep ==
    \A k \in NewEvents :
        log'[k].e = "locals" =>
            IterationAsOrdered(k, instructions[Top.path],
                LocalsInOrder(IterationStart, instructions[Top.path].vars, 1),
                ConditionIn(instructions[Top.path],
                    LocalsInOrder(IterationStart, instructions[Top.path].vars, 1).vs))

\* the result of an iteration that ran a block is the result of the block
C27_BlockIteration ==
    \A k \in Events :
        (log[k].e = "iter" /\ instructions[log[k].path].action = "block"
            /\ log[k - 1].path = log[k].path /\ log[k - 1].e # "cond"
            /\ log[k - 1].e # "locals") =>
                log[k - 1].e = "block_exit" /\ log[k - 1].d.out = log[k].d.out

\* C27: in every iteration of an instruction the entries of vars are evaluated
\* and assigned as script-locals one after the other, in the order of their
\* declaration, before the condition is evaluated, and so again at every item
\* of a loop; when the condition is false the action is not executed, the
\* iteration returns True and a loop goes on; when it is absent or true the
\* action is executed and its result is the result of the iteration.
C27_VarsThenCondition == [](C27_BlockIteration) /\ [][C27_IterationStep]_vars

\* a loop over two items with two chained vars and a condition on the item:
\* at the first item the vars took the item's value, the condition was false
\* and the iteration returned True without the action; at the second the vars
\* took the new value, the condition was true and the action ran
C27_Witness ==
    /\ source \in VarsChained /\ "loop" \in DOMAIN source[1]
    /\ \E a, b \in Events :
          /\ a < b /\ log[a].e = "locals" /\ log[b].e = "locals"
          /\ log[a].host = log[b].host /\ log[a].path = <<1>> /\ log[b].path = <<1>>
          /\ log[a].d.bound = ("y" :> Str("a") @@ "z" :> Str("a"))
          /\ log[a + 1].e = "cond" /\ ~log[a + 1].d.v
          /\ log[a + 2].e = "iter" /\ log[a + 2].d.out = Ret(TRUE)
          /\ log[b].d.bound = ("y" :> Str("b") @@ "z" :> Str("b"))
          /\ log[b + 1].e = "cond" /\ log[b + 1].d.v
          /\ log[b + 2].e = "action" /\ log[b + 4].e = "iter"
          /\ Len(log) = b + 4

\* the name a group-name field stands for once the step has evaluated it:
\* the field itself, or what its template gives, stripped, when that is a
\* string without invalid characters (the actions on groups leave the
\* storage as the vars of the iteration made it)
TemplateNamed(t) ==
    IF ~IsError(t.err) /\ t.v.t = "str" /\ ~HasInvalidChars(strip(t.v.s))
    THEN [ok |-> TRUE, name |-> strip(t.v.s)]
    ELSE [ok |-> FALSE, name |-> ""]
Named(mbt, name) ==
    IF mbt THEN TemplateNamed(template(Bound(hostIdx, variables'), name))
    ELSE [ok |-> TRUE, name |-> name.s]

\* the field names a group that the Inventory does not have before the step
Missing(mbt, name) ==
    Named(mbt, name).ok /\ Named(mbt, name).name \notin inventory.groups

\* a group that the action of instr needs is missing: the parent of
\* create_group, the group of add_host, the group of add_child, or its child
\* when the group is there
MustExistMissing(instr) ==
    CASE instr.action = "create_group" ->
            instr.parent_name # None /\ Missing(instr.parent_mbt, instr.parent_name)
      [] instr.action = "add_host" -> Missing(instr.may_be_template, instr.group)
      [] instr.action = "add_child" ->
            \/ Missing(instr.group_mbt, instr.group_name)
            \/ /\ Named(instr.group_mbt, instr.group_name).ok
               /\ Missing(instr.child_mbt, instr.child_name)
      [] OTHER -> FALSE

\* C28: when the parent of create_group, the group of add_host, or the group
\* or the child of add_child is not among the groups of the Inventory, the
\* action raises the runtime error "group does not exist" and the Inventory
\* is as it was: no group is created, no link is added.
C28_MissingGroupNoChange ==
    [][\A k \in NewEvents :
          (log'[k].e = "result" /\ MustExistMissing(instructions[log'[k].path])) =>
              /\ log'[k].d.sig = AnsibleError("group does not exist")
              /\ inventory' = inventory
      ]_vars

\* create_group of g2 under the parent g1, which no instruction created, has
\* raised for the second host: g2 is not a group and the Inventory is the
\* initial one
C28_Witness ==
    /\ source = <<CreateG2In(Str("g1"))>> /\ hostIdx = 2
    /\ Len(log) > 2
    /\ log[Len(log) - 1].e = "result"
    /\ log[Len(log) - 1].d.sig = AnsibleError("group does not exist")
    /\ "g2" \notin inventory.groups
    /\ inventory = InitInventory

\* the template of a group-name field gives a value that is not a string
NonString(mbt, name) ==
    /\ mbt
    /\ ~IsError(template(Bound(hostIdx, variables'), name).err)
    /\ template(Bound(hostIdx, variables'), name).v.t # "str"

\* the field is evaluated to the name of a group that is there
Found(mbt, name) == Named(mbt, name).ok /\ ~Missing(mbt, name)

\* the action of instr comes to a group-name field whose template gives a
\* value that is not a string
NonStringGroup(instr) ==
    CASE instr.action = "create_group" ->
            IF instr.parent_name = None
            THEN NonString(instr.group_mbt, instr.group_name)
            ELSE \/ NonString(instr.parent_mbt, instr.parent_name)
                 \/ /\ Found(instr.parent_mbt, instr.parent_name)
                    /\ NonString(instr.group_mbt, instr.group_name)
      [] instr.action = "add_host" -> NonString(instr.may_be_template, instr.group)
      [] instr.action = "add_child" ->
            \/ NonString(instr.group_mbt, instr.group_name)
            \/ /\ Found(instr.group_mbt, instr.group_name)
               /\ NonString(instr.child_mbt, instr.child_name)
      [] OTHER -> FALSE

\* C29 (as stated): when a group-name field that may be a template evaluates
\* to a value that is not a string, the action raises a runtime error, of the
\* kind a rescue section catches and host strictness confines to the host, and
\* the Inventory is as it was.
C29_NonStringIsRuntimeError ==
    [][\A k \in NewEvents :
          (log'[k].e = "result" /\ NonStringGroup(instructions[log'[k].path])) =>
              /\ log'[k].d.sig.k = "AnsibleError"
              /\ inventory' = inventory
      ]_vars

\* an add_host whose group is a template that gives a list ran in the block
\* section of a block with a rescue section, under strictness host: the error
\* was no AnsibleError, the rescue section was not run, and the load was
\* aborted at the first host with the Inventory as it was
C29_Witness ==
    /\ source = <<Block(<<AddHostLst>>, <<SetFactR>>, <<>>)>>
    /\ strictness = "host" /\ pc = "aborted" /\ hostIdx = 1
    /\ \E k \in Events :
          /\ log[k].e = "result" /\ log[k].path = <<1, 1, 1>>
          /\ log[k].d.sig.k = "Exception"
    /\ \A k \in Events : log[k].e # "rescued"
    /\ inventory = InitInventory

\* the instruction i with the run-once state of the instruction j
WithFiredStateOf(i, j) == [i EXCEPT !.executed_once = j.executed_once]

\* the tree of instructions is the one parsing built, but for the run-once
\* state of its instructions
TreeAsParsed(tab) ==
    /\ DOMAIN instructions = DOMAIN tab
    /\ \A p \in DOMAIN tab :
          /\ DOMAIN instructions[p] = DOMAIN tab[p]
          /\ WithFiredStateOf(instructions[p], tab[p]) = tab[p]
          /\ tab[p].executed_once = None => instructions[p].executed_once = None

\* C30: once the program has been executed for any number of hosts, however
\* the runs ended, every instruction of the tree has the fields parsing gave
\* it (action, condition, loop, loop variable, vars, save set, the fields of
\* its action, the lists of its sections); only the run-once state of a
\* run_once instruction has changed.  Stated between the runs of two hosts and
\* at the end of the load.
C30_InstructionsImmutable ==
    pc \in {"hosts", "done", "aborted"} =>
        TreeAsParsed(ParseProgram(source, 1).tab)

\* a run_once instruction with a loop has been called for all the hosts, the
\* run of one host ending on an error and that of another normally: the
\* instruction is marked, and the tree is otherwise the parsed one
C30_Witness ==
    /\ pc = "done" /\ hostIdx = NHosts
    /\ \E p \in DOMAIN instructions :
          /\ instructions[p].executed_once = Bool(TRUE)
          /\ instructions[p].loop # None
          /\ ParseProgram(source, 1).tab[p].executed_once = Bool(FALSE)
    /\ HostErrors # {}
    /\ \E e \in Events : log[e].e = "host_end" /\ log[e].d.out = Ret(TRUE)
    /\ TreeAsParsed(ParseProgram(source, 1).tab)

\* the record of the source the instruction at the path q under rec was
\* parsed from, and the records of a program, nested ones included
RECURSIVE RecordUnder(_, _)
RecordUnder(rec, q) ==
    IF q = <<>> THEN rec
    ELSE RecordUnder(SectionSource(rec, SectionNames[q[1]])[q[2]], Tail(Tail(q)))
RecordAt(p) == RecordUnder(source[p[1]], Tail(p))
RECURSIVE RecordsIn(_)
RecordsIn(rec) ==
    {rec} \cup UNION {RecordsIn(SectionSource(rec, x[1])[x[2]]) :
                         x \in SectionSlots(rec)}
SourceRecords == UNION {RecordsIn(source[i]) : i \in 1..Len(source)}

\* the run-once state the record asks for: not yet run for run_once: true,
\* none otherwise
AskedOnce(rec) ==
    IF "run_once" \in DOMAIN rec /\ rec.run_once = Bool(TRUE)
    THEN Bool(FALSE) ELSE None

\* a run_once that is no boolean fails parsing and no instruction is kept;
\* the state of an instruction is the one asked for when parsing is over, none
\* for ever if none was asked for, not yet run or already run otherwise; only
\* instructions that asked for run_once are ever skipped
C31_States ==
    /\ (\E rec \in SourceRecords :
           "run_once" \in DOMAIN rec /\ rec.run_once.t # "bool")
          => pc \in {"parse", "parse_error", "parse_crash"} /\ instructions = EmptyDict
    /\ \A p \in DOMAIN instructions :
          /\ (pc = "hosts" /\ hostIdx = 0) =>
                instructions[p].executed_once = AskedOnce(RecordAt(p))
          /\ AskedOnce(RecordAt(p)) = None => instructions[p].executed_once = None
          /\ AskedOnce(RecordAt(p)) # None =>
                instructions[p].executed_once \in {Bool(FALSE), Bool(TRUE)}
    /\ RunOver =>
          \A k \in Events :
              log[k].e = "skip" => AskedOnce(RecordAt(log[k].path)) = Bool(FALSE)

\* once the program is parsed the state of an instruction changes only from
\* not yet run to already run, in the step of run_for that passes the run-once
\* check of that instruction
C31_Step ==
    pc # "parse" =>
        /\ DOMAIN instructions' = DOMAIN instructions
        /\ \A p \in DOMAIN instructions :
              instructions'[p].executed_once # instructions[p].executed_once =>
                  /\ instructions[p].executed_once = Bool(FALSE)
                  /\ instructions'[p].executed_once = Bool(TRUE)
                  /\ stack # <<>> /\ Top.k = "run_for" /\ Top.st = "enter"
                  /\ Top.path = p

\* C31: the run-once state of an instruction is set by parsing: none when
\* run_once is absent or false, not yet run when it is true, and a run_once
\* that is no boolean is a parse error.  During execution the state only goes
\* from not yet run to already run, in run_for: none stays none whatever the
\* number of calls, and the instruction is never skipped; already run stays.
C31_RunOnceTriState == [](C31_States) /\ [][C31_Step]_vars

\* an instruction parsed with run_once: false was called for every host and
\* never skipped, its state still none; the load is over
C31_Witness ==
    /\ pc = "done" /\ source = <<RunOnceOff @@ SetFactR>>
    /\ instructions[<<1>>].executed_once = None
    /\ \A h \in 1..NHosts :
          \E k \in Events :
              /\ log[k].e = "enter" /\ log[k].path = <<1>> /\ log[k].host = h
              /\ \E a \in EventsOfCall(k, "action") : TRUE

\* the invocations of run_for that are active and past the run-once check,
\* outermost first
PastCheck(f) == f.k = "run_for" /\ f.st # "enter"
ActiveCalls == SelectSeq(stack, PastCheck)

\* the record is the one the invocation f pushed: the names of the save set
\* of its instruction, each with the script-local binding it had on entry
PushedBy(record, f) ==
    /\ DOMAIN record = SeqToSet(instructions[f.path].save)
    /\ \A n \in DOMAIN record :
          /\ record[n].existed <=> n \in DOMAIN f.entry
          /\ record[n].existed => record[n].value = f.entry[n]

\* C32: pushes and pops of the save stack are nested.  While a host is run the
\* stack holds one record for each active invocation of run_for that got past
\* the run-once check, in the order of the invocations, and each record is the
\* one its invocation pushed, so that the pop of an invocation takes its own
\* record; the stack is empty between two top-level instructions and once the
\* run of the host is over, however it ended.
C32_SaveStackNested ==
    /\ pc = "run" =>
          /\ Len(variables.script_stack) = Len(ActiveCalls)
          /\ \A j \in 1..Len(ActiveCalls) :
                PushedBy(variables.script_stack[j], ActiveCalls[j])
          /\ Len(stack) = 1 => variables.script_stack = <<>>
    /\ pc \in {"hosts", "done", "aborted"} =>
          /\ variables.script_stack = <<>>
          /\ \A h \in DOMAIN discarded : discarded[h].script_stack = <<>>

\* two invocations of run_for are active, one within the other, each with a
\* name to save, and the inner one found a script-local of that name on entry
C32_Witness ==
    /\ pc = "run"
    /\ Len(ActiveCalls) = 2 /\ Len(variables.script_stack) = 2
    /\ DOMAIN variables.script_stack[1] # {}
    /\ \E n \in DOMAIN variables.script_stack[2] :
          variables.script_stack[2][n].existed

\* the ends of the executions of a block whose always section raised no error,
\* and the ends of the sections of the execution that ends at x
QuietEnds ==
    {x \in Events :
        /\ log[x].e = "block_exit"
        /\ log[x - 1].e = "section_end" /\ log[x - 1].path = log[x].path
        /\ log[x - 1].d.sec = "always"
        /\ ~IsError(log[x - 1].d.out)}
SectionEnds(x, sec) ==
    {e \in BlockStartOf(x, log[x].path)..x :
        /\ log[e].e = "section_end" /\ log[e].path = log[x].path
        /\ log[e].d.sec = sec}

\* the execution that ends at x had its block section, or its rescue section
\* if that one ran, end on an interrupt
Interrupted(x) ==
    \E e \in SectionEnds(x, "block") \cup SectionEnds(x, "rescue") :
        log[e].d.out = Ret(FALSE)

\* C33: when the block section of a block, or its rescue section when it ran,
\* returned an interrupt and the always section raised no error, the block
\* returns the interrupt, False, whether the always section returned True or
\* False, and False is the result of the iteration of the block instruction.
C33_InterruptKept ==
    RunOver =>
        \A x \in QuietEnds :
            Interrupted(x) =>
                /\ log[x].d.out = Ret(FALSE)
                /\ log[x + 1].e = "iter" /\ log[x + 1].path = log[x].path
                /\ log[x + 1].d.out = Ret(FALSE)

\* the block section raised, the rescue section ran and returned an interrupt,
\* an instruction of the always section ran and the section returned True: the
\* block returned False
C33_Witness ==
    /\ RunOver
    /\ \E x \in QuietEnds :
          /\ \E e \in SectionEnds(x, "rescue") : log[e].d.out = Ret(FALSE)
          /\ log[x - 1].d.out = Ret(TRUE)
          /\ instructions[log[x].path].always # <<>>
          /\ log[x].d.out = Ret(FALSE)

\* the action of the instruction begins with an evaluation by the templar
EvaluatesFirst(instr) ==
    CASE instr.action \in {"set_fact", "set_var"} -> TRUE
      [] instr.action = "fail" -> instr.message # None
      [] instr.action = "add_host" -> instr.may_be_template
      [] instr.action = "add_child" -> instr.group_mbt
      [] instr.action = "create_group" ->
            IF instr.parent_name = None THEN instr.group_mbt ELSE instr.parent_mbt
      [] OTHER -> FALSE

\* the events where the templar was asked to evaluate: the vars, a condition,
\* a loop source, the name, value or message of an action
Evaluations ==
    {k \in Events :
        \/ log[k].e \in {"locals", "loop"}
        \/ log[k].e = "cond" /\ instructions[log[k].path].condition # None
        \/ log[k].e = "result" /\ EvaluatesFirst(instructions[log[k].path])}

OpsKeepFacts(vs) ==
    /\ \A k \in DOMAIN vs.cache :
          /\ SetItem(vs, k, Str("other")).host_vars = vs.host_vars
          /\ DelItem(vs, k).host_vars = vs.host_vars
    /\ \A names \in SUBSET DOMAIN vs.cache :
          ScriptStackPush(vs, names).host_vars = vs.host_vars
    /\ vs.script_stack # <<>> => ScriptStackPop(vs).host_vars = vs.host_vars

\* the set_fact of a literal value under a literal name that returned True,
\* and were the last to set that name for their host
LastSetFacts ==
    {k \in Events :
        /\ log[k].e = "result" /\ log[k].d.sig = Ret(TRUE)
        /\ instructions[log[k].path].action = "set_fact"
        /\ ~instructions[log[k].path].name_may_be_template
        /\ instructions[log[k].path].var_value.t # "tpl"
        /\ \A j \in Events :
              (/\ j > k /\ log[j].e = "result" /\ log[j].host = log[k].host
               /\ instructions[log[j].path].action = "set_fact")
              => instructions[log[j].path].var_name # instructions[log[k].path].var_name}

\* C35: the save stack does not undo facts.  Pushing, popping, setting and
\* deleting a script-local leave the host facts of the storage as they are
\* (and the storage holds no part of the Inventory), so the value a set_fact
\* gave a fact is the value of the fact in the storage at the end of the
\* host's run and in the Inventory at the end of the load, whatever scopes
\* were popped since, those that had the name of the fact in their save set
\* included.
C35_FactsNotUndone ==
    /\ pc = "run" => OpsKeepFacts(variables)
    /\ RunOver =>
          \A k \in LastSetFacts :
              LET n == instructions[log[k].path].var_name.s
                  v == instructions[log[k].path].var_value
              IN /\ n \in DOMAIN discarded[log[k].host].host_vars
                 /\ discarded[log[k].host].host_vars[n] = v
                 /\ inventory.hostvars[AllHosts[log[k].host]][n] = v

\* a set_fact of flag, a fact of the host, ran in an instruction whose vars
\* bind flag as a script-local; the scope was popped, the script-local is
\* gone and the fact has the value of the set_fact in the storage and in the
\* Inventory
C35_Witness ==
    /\ pc = "run" /\ Len(source) = 2 /\ "vars" \in DOMAIN source[1]
    /\ instructions[<<1>>].save = <<"flag">>
    /\ log[Len(log)].e = "exit" /\ log[Len(log)].path = <<1>>
    /\ log[Len(log)].d.res = Ret(TRUE)
    /\ "flag" \notin DOMAIN variables.script_vars
    /\ variables.host_vars["flag"] = Str("ok")
    /\ inventory.hostvars[HostName]["flag"] = Str("ok")
    /\ HostFacts(hostIdx)["flag"] # Str("ok")

\* the events where the loop source of an instruction gave a value that is
\* not a list
NotAList ==
    {l \in Events :
        /\ log[l].e = "loop"
        /\ log[l].d.err = AnsibleError("did not evaluate to a list")}

\* C36: when the loop source of an instruction evaluates to something that
\* is not a sequence, run_for raises a runtime error; no iteration is run, no
\* vars are evaluated and the action is not executed; the record pushed on
\* entry is popped, so that the names of the save set, the other script-locals
\* and the depth of the stack are what they were before the call.
C36_BadLoopSource ==
    RunOver =>
        \A l \in NotAList :
            /\ ~log[l].d.ok /\ log[l].d.items = <<>>
            /\ log[l - 1].e = "enter" /\ log[l - 1].path = log[l].path
            /\ log[l + 1].e = "exit" /\ log[l + 1].path = log[l].path
            /\ log[l + 1].d.res = log[l].d.err
            /\ log[l + 1].d.exit = log[l + 1].d.entry
            /\ log[l + 1].d.locals = log[l - 1].d.locals
            /\ log[l + 1].d.depth = log[l - 1].d.depth

\* the loop source of an instruction whose save set holds its loop variable x,
\* bound before the call, and the name y of its vars, gave a string: run_for
\* raised, x has the value it had and y is not bound
C36_Witness ==
    /\ source = LoopBadX /\ pc = "run" /\ Len(log) > 2
    /\ log[Len(log)].e = "exit" /\ log[Len(log)].path = <<2>>
    /\ log[Len(log)].d.res = AnsibleError("did not evaluate to a list")
    /\ log[Len(log) - 1] \in {log[l] : l \in NotAList}
    /\ log[Len(log)].d.save = {"x", "y"}
    /\ variables.script_vars = ("x" :> Str("1"))
    /\ variables.script_stack = <<>>

\* the first calls of a run_once instruction that executed no action: the
\* condition was false, or the loop had no item
IdleOnceCalls ==
    {i \in RunOnceCalls :
        /\ log[i].e = "enter"
        /\ \/ \E c \in EventsOfCall(i, "cond") : log[c].d.ok /\ ~log[c].d.v
           \/ \E l \in EventsOfCall(i, "loop") : log[l].d.ok /\ log[l].d.items = <<>>
        /\ EventsOfCall(i, "action") = {}}

\* C37: a run_once instruction is marked as fired by its first call of run_for
\* even when that call executes no action, its condition being false or its
\* loop having no item: every later call, for any host, is answered True at
\* the run-once check, and neither its action nor anything nested in it is
\* executed at any point of the run, whatever its condition would give there.
C37_IdleFirstCallMarks ==
    RunOver =>
        \A i \in IdleOnceCalls :
            /\ instructions[log[i].path].executed_once = Bool(TRUE)
            /\ \A k \in Events : k < i => ~(IsCall(k) /\ log[k].path = log[i].path)
            /\ \A k \in Events : log[k].path = log[i].path => log[k].e # "action"
            /\ \A x \in EventsOfCall(i, "exit") :
                  \A k \in LaterEvents(log[i].path, x) :
                      /\ log[k].path = log[i].path
                      /\ log[k].e = "skip"
                      /\ log[k].d.ret = Ret(TRUE)

\* the condition of a run_once set_fact was false for the first host: the call
\* made for the second host, where the condition is true, was skipped, and the
\* fact is set for neither host
C37_Witness ==
    /\ pc = "done"
    /\ source = <<RunOnce @@ WhenFlagNo @@ SetFactR>>
    /\ \E i \in IdleOnceCalls :
          /\ log[i].host = 1
          /\ \E k \in Events :
                /\ log[k].e = "skip" /\ log[k].path = log[i].path
                /\ log[k].host = 2
    /\ EvalExpr(discarded[2], "flag == 'no'").v = Bool(TRUE)
    /\ \A h \in 1..2 : "r" \notin DOMAIN inventory.hostvars[AllHosts[h]]

\* the calls of run_for that an exception which is not an AnsibleError left
CrashExits == {x \in Events : log[x].e = "exit" /\ log[x].d.res.k = "Exception"}

\* the path of the block whose section holds the instruction at p
BlockOf(p) == SubSeq(p, 1, Len(p) - 2)

\* the exception that left the call x of an instruction of a section goes to
\* the finally clause of the block: no rescue section is started, the always
\* section is; out of the always section, it leaves the block
CrashInSection(x) ==
    /\ log[x + 1].e = "section_end" /\ log[x + 1].path = BlockOf(log[x].path)
    /\ log[x + 1].d.out = log[x].d.res
    /\ IF log[x + 1].d.sec = "always"
       THEN /\ log[x + 2].e = "block_exit" /\ log[x + 2].path = BlockOf(log[x].path)
            /\ log[x + 2].d.out = log[x].d.res
       ELSE /\ log[x + 2].e = "section" /\ log[x + 2].path = BlockOf(log[x].path)
            /\ log[x + 2].d.sec = "always"
            /\ instructions[BlockOf(log[x].path)].always # <<>> =>
                  /\ IsCall(x + 3)
                  /\ log[x + 3].path = ChildPath(BlockOf(log[x].path), "always", 1)

\* the exception that left the call x of an instruction of the program ends
\* the load, whatever the strictness
CrashAtTop(x) ==
    /\ x + 1 = Len(log)
    /\ log[x + 1].e = "host_end" /\ log[x + 1].d.out = log[x].d.res
    /\ pc = "aborted"

\* the ends of the executions of a block that kept an exception which is not an
\* AnsibleError while its always section ran
CrashPending == {b \in Events : log[b].e = "block_exit" /\ log[b].d.pend.k = "Exception"}

\* C38 (amended): an exception that is not an AnsibleError is not rescued: out
\* of a call made by the block or the rescue section of a block it starts the
\* always section, whether the block has a rescue section or not, and when the
\* always section is over without an error of its own it leaves the block; out
\* of a call made by exec_for_host it ends the load under either strictness,
\* and no later host is run.  An error raised by the always section replaces it.
C38_CrashNotRescued ==
    RunOver =>
        /\ \A x \in CrashExits :
              IF Len(log[x].path) = 1 THEN CrashAtTop(x) ELSE CrashInSection(x)
        /\ \A b \in CrashPending :
              /\ log[b - 1].e = "section_end" /\ log[b - 1].d.sec = "always"
              /\ log[b].d.out =
                    IF IsError(log[b - 1].d.out) THEN log[b - 1].d.out
                    ELSE log[b].d.pend
              /\ log[b + 1].e = "iter" /\ log[b + 1].d.out = log[b].d.out

\* C38 (as stated): an exception that is not an AnsibleError, once raised,
\* ends the load: the run of its host is the last one.
C38_CrashEndsRun ==
    RunOver =>
        \A x \in CrashExits :
            /\ pc = "aborted"
            /\ log[Len(log)].e = "host_end" /\ log[Len(log)].host = log[x].host
            /\ log[Len(log)].d.out = log[x].d.res

\* under strictness host, the block section of a block with the three
\* sections raised an exception that is not an AnsibleError for the first
\* host: the rescue section was not run, the always section created its group,
\* and the load ended there
C38_Witness ==
    /\ pc = "aborted" /\ strictness = "host" /\ hostIdx = 1 /\ NHosts > 1
    /\ source = <<Block(<<AddHostLst>>, <<SetFactR>>, <<CreateG1>>)>>
    /\ log[Len(log)].e = "host_end" /\ log[Len(log)].d.out.k = "Exception"
    /\ CrashExits # {}
    /\ "g1" \in inventory.groups
    /\ "r" \notin DOMAIN inventory.hostvars["h1"]
    /\ \A k \in Events : log[k].e # "rescued"

\* the call of run_for begun at i has not returned at k
ActiveAt(i, k) ==
    /\ i <= k /\ log[i].e = "enter" /\ log[i].host = log[k].host
    /\ \A x \in (i + 1)..k : ~(log[x].e = "exit" /\ log[x].path = log[i].path)

\* reconstructed_error is in the save set of the call i
SavesError(i) ==
    "reconstructed_error" \in SeqToSet(instructions[log[i].path].save)

\* reconstructed_error is in the save set of the block whose rescue section
\* was started at r, or of an instruction around that block
ScopedRescue(r) ==
    \E i \in Events :
        /\ ActiveAt(i, r) /\ SavesError(i)
        /\ log[i].path = log[r].path \/ IsUnder(log[r].path, log[i].path)

\* reconstructed_error is in the save set of an instruction around the one
\* called at e
ScopedCall(e) ==
    \E i \in Events :
        ActiveAt(i, e) /\ SavesError(i) /\ IsUnder(log[e].path, log[i].path)

\* the rescue sections started for the host of the event e before e
RescuesBefore(e) ==
    {r \in Events : r < e /\ log[r].e = "rescued" /\ log[r].host = log[e].host}

LastOf(S) == CHOOSE r \in S : \A q \in S : q <= r

\* the script-locals that the call e found on entry: without a rescue section
\* run for the host, reconstructed_error is not bound; after one that is not
\* within the scope of a save set holding the name, it is bound to the
\* message of the last error rescued
ErrorBinding(e) ==
    IF RescuesBefore(e) = {}
    THEN "reconstructed_error" \notin DOMAIN log[e].d.locals
    ELSE ~ScopedRescue(LastOf(RescuesBefore(e))) =>
            /\ "reconstructed_error" \in DOMAIN log[e].d.locals
            /\ log[e].d.locals["reconstructed_error"] =
                  Str(log[LastOf(RescuesBefore(e))].d.msg)

ShadowedSets ==
    {s \in Events :
        /\ log[s].e = "result" /\ log[s].d.sig = Ret(TRUE)
        /\ instructions[log[s].path].action = "set_fact"
        /\ ~instructions[log[s].path].name_may_be_template
        /\ instructions[log[s].path].var_value.t # "tpl"
        /\ instructions[log[s].path].var_name.s \in DOMAIN log[s].d.vs.script_vars}

\* the storage as the actions and the pops that come after s for the same
\* host left it, up to the next set_fact of the name k
StoragesAfter(s, k) ==
    {log[t].d.vs : t \in
        {t \in Events :
            /\ t >= s /\ log[t].host = log[s].host
            /\ log[t].e \in {"result", "exit"}
            /\ \A j \in (s + 1)..t :
                  ~(/\ log[j].e = "result"
                    /\ instructions[log[j].path].action = "set_fact"
                    /\ instructions[log[j].path].var_name.s = k)}}

\* reading k gives the script-local if there is one and v otherwise, at once
\* and after the deletion of the script-local
ReadsShadowed(w, k, v) ==
    IF k \in DOMAIN w.script_vars
    THEN /\ GetItem(w, k) = w.script_vars[k]
         /\ k \in DOMAIN DelItem(w, k).cache
         /\ GetItem(DelItem(w, k), k) = v
    ELSE k \in DOMAIN w.cache /\ GetItem(w, k) = v

\* C40: when set_fact sets the fact k while a script-local of k is bound,
\* reading k through the storage gives the script-local as long as there is
\* one; once the script-local is gone, by a pop of the save stack or by a
\* deletion, reading k gives the value that set_fact set, not the value the
\* fact had before.
C40_ShadowedFactShowsLater ==
    RunOver =>
        \A s \in ShadowedSets :
            \A w \in StoragesAfter(s, instructions[log[s].path].var_name.s) :
                ReadsShadowed(w, instructions[log[s].path].var_name.s,
                              instructions[log[s].path].var_value)

\* the fact flag, which was yes for the first host, was set to ok in a block
\* whose vars bind flag: the instruction that follows in the block read the
\* value of the vars, and after the block flag reads ok
C40_Witness ==
    /\ pc = "run" /\ hostIdx = 1 /\ Len(source) = 2
    /\ source[1] = [vars |-> Dict(<< <<"flag", Str("local")>> >>)]
                      @@ Block(<<SetFactOf("flag"), ReadInto("flag")>>, <<>>, <<>>)
    /\ log[Len(log)].e = "exit" /\ log[Len(log)].path = <<1>>
    /\ HostFacts(1)["flag"] = Str("yes")
    /\ ShadowedSets # {}
    /\ inventory.hostvars["h1"]["q"] = Str("local")
    /\ "flag" \notin DOMAIN variables.script_vars
    /\ GetItem(variables, "flag") = Str("ok")

\* the mapping that reads through the storage must give: the host facts
\* overlaid by the script locals
Overlay(vs) ==
    [k \in (DOMAIN vs.host_vars) \cup (DOMAIN vs.script_vars) |->
        IF k \in DOMAIN vs.script_vars THEN vs.script_vars[k] ELSE vs.host_vars[k]]

\* C2: after any sequence of __setitem__, __delitem__, _set_host_var,
\* _script_stack_push and _script_stack_pop, the cache has exactly the keys of
\* the host facts and the script locals, and maps each key to its script-local
\* value when there is one and to its host-fact value otherwise.
C2_CacheIsOverlay == variables.cache = Overlay(variables)

\* a pop has just restored a script local that shadows a host fact of another
\* value, and a host fact was set under a script local before
C2_Witness ==
    /\ pc = "vs"
    /\ vsOp.op = "pop"
    /\ \E k \in vsOp.names :
          /\ k \in DOMAIN variables.script_vars
          /\ k \in DOMAIN variables.host_vars
          /\ variables.script_vars[k] # variables.host_vars[k]
    /\ \E k \in DOMAIN variables.host_vars : k \notin DOMAIN variables.script_vars

\* C3: _script_stack_push(names) immediately followed by _script_stack_pop()
\* leaves the cache, the script locals, the host facts and the stack as they
\* were before the push.
C3_PushPopRoundTrip == vsOp.op = "push_pop" => variables = vsBefore

\* a push and pop of two names, one with a script local and one without, over
\* a stack that is not empty
C3_Witness ==
    /\ vsOp.op = "push_pop"
    /\ \E k \in vsOp.names : k \in DOMAIN variables.script_vars
    /\ \E k \in vsOp.names : k \notin DOMAIN variables.script_vars
    /\ variables.script_stack # <<>>
    /\ variables.host_vars # EmptyDict

====
